---- MODULE Spec2Model ----
\* Daily aggregation of Toggl time entries (scripts/fetch-toggl-data.py,
\* scripts/backfill_history_daily.py) and the timezone-corrected daily KPIs
\* (scripts/final-production-data.py, scripts/test-timezone-fix.py).
\*
\* Encoding of values
\*   None            <<>>            Python None / JSON null / absent key
\*   timestamp       <<t>>           the ISO-8601 string of the UTC instant t,
\*                                   t in seconds since 2025-01-01T00:00:00Z
\*                                   (Toggl sends "...+00:00" or "...Z")
\*   bad timestamp   <<-1>>          a string datetime.fromisoformat rejects
\*   "HH:MM"         <<hh, mm>>      the two fields of f"{hh:02d}:{mm:02d}"
\*   "YYYY-MM-DD"    <<y, m, d>>     the three fields of date.isoformat()
\*   hours (float)   hundredths      round(x, 2) kept as an integer number of 1/100 h
EXTENDS Integers, Sequences, FiniteSets, TLC

None == <<>>

Some(v) == <<v>>

----------------------------------------------------------------------------
\* Bounds of the model

\* longest entry list handed to one call in the per-day specifications
MaxEntries == 3

\* longest entry list handed to one call of the daily KPI functions
MaxKpiEntries == 2

\* longest entry list handed to one call in the history specification
MaxBatch == 2

\* number of serial runs in the history specification
MaxRuns == 2

----------------------------------------------------------------------------
\* Calendar and clock arithmetic of datetime (year 2025)

MonthLengths == <<31, 28, 31, 30, 31, 30, 31, 31, 30, 31, 30, 31>>

RECURSIVE MonthDay(_, _)
MonthDay(m, d) ==
    IF d < MonthLengths[m] THEN <<m, d + 1>>
    ELSE MonthDay(m + 1, d - MonthLengths[m])

\* datetime.date().isoformat() of an instant shown with offset +00:00
DateIso(t) ==
    LET md == MonthDay(1, t \div (24 * 3600))
    IN  <<2025, md[1], md[2]>>

\* datetime.hour / datetime.minute
Hour(t) == (t % (24 * 3600)) \div 3600

Minute(t) == (t % 3600) \div 60

\* lexicographic order of two "YYYY-MM-DD" strings
DateLess(a, b) ==
    \/ a[1] < b[1]
    \/ a[1] = b[1] /\ a[2] < b[2]
    \/ a[1] = b[1] /\ a[2] = b[2] /\ a[3] < b[3]

----------------------------------------------------------------------------
\* _parse_iso_datetime

_parse_iso_datetime(dt_str) ==
    IF dt_str = None THEN None
    ELSE IF dt_str[1] < 0 THEN None
    ELSE dt_str

\* _minutes_since_midnight
_minutes_since_midnight(dt) == Hour(dt[1]) * 60 + Minute(dt[1])

\* f"{m // 60:02d}:{m % 60:02d}"
FormatHHMM(minutes) == <<minutes \div 60, minutes % 60>>

\* round(seconds / 3600.0, 2), in hundredths of an hour: the nearest hundredth.
\* A sum exactly between two hundredths (seconds % 36 = 18) is rounded by the
\* binary value of the float; every duration of the inputs is a multiple of
\* 4 s, so no sum of durations falls there.
RoundHours(seconds) == (seconds * 100 + 1800) \div 3600

----------------------------------------------------------------------------
\* _update_history_daily: grouping of the entries by date

HomeOffice == "HomeOffice"

Commuting == "Commuting"

\* entry.get("duration", 0) or 0
DurationOf(entry) == IF entry.duration = None THEN 0 ELSE entry.duration[1]

\* mutant: only a zero or null duration is skipped, a negative one is kept
KeptNegativeDuration(entry) ==
    /\ DurationOf(entry) # 0
    /\ _parse_iso_datetime(entry.start) # None

\* the two `continue` guards of the grouping loop
Kept(entry) ==
    /\ ~(DurationOf(entry) <= 0)
    /\ _parse_iso_datetime(entry.start) # None

\* the dict appended to per_day[date_str]
Grouped(entry) ==
    [start    |-> _parse_iso_datetime(entry.start),
     stop     |-> _parse_iso_datetime(entry.stop),
     duration |-> DurationOf(entry),
     billable |-> entry.billable,
     tags     |-> entry.tags]

date_str(e) == DateIso(e.start[1])

\* per_day: date -> entries of that date, in input order
per_day(time_entries) ==
    LET kept    == SelectSeq(time_entries, Kept)
        grouped == [i \in 1..Len(kept) |-> Grouped(kept[i])]
        dates   == {date_str(grouped[i]) : i \in 1..Len(grouped)}
    IN  [d \in dates |-> SelectSeq(grouped, LAMBDA e : date_str(e) = d)]

----------------------------------------------------------------------------
\* list.sort(key=...) is stable: equal keys keep their input order

RECURSIVE SortByStart(_)
SortByStart(s) ==
    IF s = <<>> THEN <<>>
    ELSE LET t == SortByStart(SubSeq(s, 1, Len(s) - 1))
             x == s[Len(s)]
         IN  SelectSeq(t, LAMBDA e : e.start[1] <= x.start[1])
                 \o <<x>>
                 \o SelectSeq(t, LAMBDA e : e.start[1] > x.start[1])

RECURSIVE SortByStop(_)
SortByStop(s) ==
    IF s = <<>> THEN <<>>
    ELSE LET t == SortByStop(SubSeq(s, 1, Len(s) - 1))
             x == s[Len(s)]
         IN  SelectSeq(t, LAMBDA e : e.stop[1] <= x.stop[1])
                 \o <<x>>
                 \o SelectSeq(t, LAMBDA e : e.stop[1] > x.stop[1])

RECURSIVE SumDurations(_)
SumDurations(s) ==
    IF s = <<>> THEN 0 ELSE s[1].duration + SumDurations(Tail(s))

----------------------------------------------------------------------------
\* _update_history_daily: the metrics of one day

\* mutant: every entry of the day counts as billable
billable_hours_all(entries) == RoundHours(SumDurations(entries))

billable_hours(entries) ==
    RoundHours(SumDurations(SelectSeq(entries, LAMBDA e : e.billable)))

\* mutant: an entry tagged Commuting does not count as away
away_from_home_hours_no_commute(entries) ==
    RoundHours(SumDurations(SelectSeq(entries,
        LAMBDA e : HomeOffice \notin e.tags /\ Commuting \notin e.tags)))

away_from_home_hours(entries) ==
    RoundHours(SumDurations(SelectSeq(entries, LAMBDA e : HomeOffice \notin e.tags)))

\* mutant: the first commuting entry in input order instead of the latest stop
back_home_time_unsorted(entries) ==
    LET commuting_entries ==
            SelectSeq(entries, LAMBDA e : Commuting \in e.tags /\ e.stop # None)
    IN  IF commuting_entries # <<>>
        THEN FormatHHMM(_minutes_since_midnight(commuting_entries[1].stop))
        ELSE None

back_home_time(entries) ==
    LET commuting_entries ==
            SortByStop(SelectSeq(entries,
                LAMBDA e : Commuting \in e.tags /\ e.stop # None))
    IN  IF commuting_entries # <<>>
        THEN FormatHHMM(_minutes_since_midnight(
                 commuting_entries[Len(commuting_entries)].stop))
        ELSE None

\* mutant: comparison of Rule 1 reversed
Rule1Reversed(last_home, last_commuting_any) ==
    last_home.start[1] < last_commuting_any.stop[1]

\* Rule 1: last_home["start"] > last_commuting_any["stop"]
Rule1(last_home, last_commuting_any) ==
    last_home.start[1] > last_commuting_any.stop[1]

\* Rule 2: entries_after_last_home
Rule2(all_entries, last_home) ==
    SelectSeq(all_entries,
        LAMBDA e : e.start[1] > last_home.stop[1] /\ HomeOffice \notin e.tags)

\* mutant: Rule 3 accepts whatever the last entry of the day is
Rule3Always(last_entry_of_day) == TRUE

\* Rule 3: last_entry_of_day["is_home"]
Rule3(last_entry_of_day) == HomeOffice \in last_entry_of_day.tags

\* [raised |-> a TypeError leaves the function, value |-> home_office_end_time]
home_office_end_time(entries) ==
    LET all_entries         == SortByStart(entries)
        home_office_entries ==
            SortByStart(SelectSeq(entries, LAMBDA e : HomeOffice \in e.tags))
        last_entry_of_day   == all_entries[Len(all_entries)]
        last_home           == home_office_entries[Len(home_office_entries)]
        commuting_for_day   ==
            SortByStart(SelectSeq(all_entries, LAMBDA e : Commuting \in e.tags))
        last_commuting_any  == commuting_for_day[Len(commuting_for_day)]
    IN  IF home_office_entries = <<>>
        THEN [raised |-> FALSE, value |-> None]
        ELSE IF commuting_for_day # <<>> /\ last_commuting_any.stop = None
        THEN \* datetime > None
             [raised |-> TRUE, value |-> None]
        ELSE IF commuting_for_day # <<>> /\ Rule1(last_home, last_commuting_any)
        THEN [raised |-> FALSE, value |-> None]
        ELSE IF last_home.stop = None
        THEN \* e["start"] > None on the first element of all_entries
             [raised |-> TRUE, value |-> None]
        ELSE IF Rule2(all_entries, last_home) # <<>>
        THEN [raised |-> FALSE, value |-> None]
        ELSE IF Rule3(last_entry_of_day)
        THEN [raised |-> FALSE,
              value  |-> FormatHHMM(_minutes_since_midnight(last_home.stop))]
        ELSE [raised |-> FALSE, value |-> None]

\* hour at which an entry makes the day a late-work day
LateHour == 20

\* mutant: only the start of an entry is looked at
IsLateStartOnly(e) == Hour(e.start[1]) >= LateHour

\* start.hour >= 20 or (stop and stop.hour >= 20)
IsLate(e) ==
    \/ Hour(e.start[1]) >= LateHour
    \/ e.stop # None /\ Hour(e.stop[1]) >= LateHour

RECURSIVE late_work(_)
late_work(entries) ==
    IF entries = <<>> THEN FALSE
    ELSE IF IsLate(entries[1])
    THEN TRUE
    ELSE late_work(Tail(entries))

day_record(date, entries) ==
    [date                 |-> date,
     billable_hours       |-> billable_hours(entries),
     away_from_home_hours |-> away_from_home_hours(entries),
     back_home_time       |-> back_home_time(entries),
     home_office_end_time |-> home_office_end_time(entries).value,
     late_work            |-> late_work(entries),
     total_entries        |-> Len(entries)]

----------------------------------------------------------------------------
\* Europe/Zurich (pytz): CEST from 2025-03-30T01:00Z to 2025-10-26T01:00Z

DstBegin == (31 + 28 + 29) * 24 * 3600 + 3600

DstEnd == (31 + 28 + 31 + 30 + 31 + 30 + 31 + 31 + 30 + 25) * 24 * 3600 + 3600

ZurichOffset(t) == IF DstBegin <= t /\ t < DstEnd THEN 2 * 3600 ELSE 3600

\* mutant: the fixed winter offset all year
utc_to_swiss_time_fixed_offset(utc_dt) == utc_dt + 3600

\* utc_dt.astimezone(self.swiss_tz): the wall clock, as seconds of local time
utc_to_swiss_time(utc_dt) == utc_dt + ZurichOffset(utc_dt)

\* parse_datetime_utc: None for a missing value, ValueError for a bad string
parse_datetime_utc_raises(dt_str) == dt_str # None /\ dt_str[1] < 0

\* fromisoformat(...).astimezone(pytz.UTC) of a UTC string: the same instant
parse_datetime_utc(dt_str) == dt_str

\* swiss_dt.strftime('%H:%M')
swiss_time_to_time_string(swiss_dt) == <<Hour(swiss_dt), Minute(swiss_dt)>>

\* round(swiss_dt.hour + swiss_dt.minute / 60.0, 2), in hundredths of an hour
swiss_time_to_decimal_hours(swiss_dt) ==
    100 * Hour(swiss_dt) + (10 * Minute(swiss_dt) + 3) \div 6

----------------------------------------------------------------------------
\* calculate_final_daily_kpis / calculate_daily_kpis_with_timezone_fix

\* the entry loop stops with an exception at this entry
KpiEntryRaises(entry) ==
    \/ parse_datetime_utc_raises(entry.start)
    \/ parse_datetime_utc_raises(entry.stop)
    \/ \* None <= 0
       /\ entry.start # None
       /\ entry.stop # None
       /\ entry.duration = None

\* not start_time_utc or not stop_time_utc or duration <= 0: continue
KpiKept(entry) ==
    ~(\/ parse_datetime_utc(entry.start) = None
      \/ parse_datetime_utc(entry.stop) = None
      \/ entry.duration[1] <= 0)

\* the dict appended to day_data['entries']
KpiEntry(entry) ==
    [entry       |-> entry,
     start_swiss |-> utc_to_swiss_time(parse_datetime_utc(entry.start)[1]),
     stop_swiss  |-> utc_to_swiss_time(parse_datetime_utc(entry.stop)[1])]

KpiDate(x) == DateIso(x.start_swiss)

\* daily_data: date -> entries of that Swiss date, in input order
daily_data(raw_entries) ==
    LET kept == SelectSeq(raw_entries, KpiKept)
        data == [i \in 1..Len(kept) |-> KpiEntry(kept[i])]
    IN  [d \in {KpiDate(data[i]) : i \in 1..Len(data)} |->
            SelectSeq(data, LAMBDA x : KpiDate(x) = d)]

RECURSIVE KpiSeconds(_)
KpiSeconds(s) ==
    IF s = <<>> THEN 0 ELSE s[1].entry.duration[1] + KpiSeconds(Tail(s))

\* max(entries, key=lambda x: x['stop_swiss'])
RECURSIVE MaxStopSwiss(_)
MaxStopSwiss(s) ==
    IF Len(s) = 1 THEN s[1].stop_swiss
    ELSE LET m == MaxStopSwiss(Tail(s))
         IN  IF s[1].stop_swiss >= m THEN s[1].stop_swiss ELSE m

KpiLate(x) == Hour(x.start_swiss) >= LateHour \/ Hour(x.stop_swiss) >= LateHour

\* the back-home and home-office-end instants (Swiss wall clock) of one day
back_home_time_swiss(entry_data_list) ==
    LET commute_entries ==
            SelectSeq(entry_data_list, LAMBDA x : Commuting \in x.entry.tags)
    IN  IF commute_entries # <<>> THEN Some(MaxStopSwiss(commute_entries)) ELSE None

home_office_end_time_swiss(entry_data_list) ==
    LET home_office_entries ==
            SelectSeq(entry_data_list, LAMBDA x : HomeOffice \in x.entry.tags)
        non_home_entries ==
            SelectSeq(entry_data_list,
                LAMBDA x : HomeOffice \notin x.entry.tags
                           /\ Commuting \notin x.entry.tags)
    IN  IF home_office_entries # <<>> /\ non_home_entries = <<>>
        THEN Some(MaxStopSwiss(home_office_entries))
        ELSE None

\* the HH:MM record of calculate_final_daily_kpis
FinalTime(swiss) ==
    IF swiss # None THEN swiss_time_to_time_string(swiss[1]) ELSE None

\* the decimal record of calculate_daily_kpis_with_timezone_fix: the stored
\* value is the decimal hour itself, and 0.0 is falsy
DecimalTime(swiss) ==
    IF swiss # None /\ swiss_time_to_decimal_hours(swiss[1]) # 0
    THEN Some(swiss_time_to_decimal_hours(swiss[1]))
    ELSE None

KpiRecord(date, entry_data_list, decimal) ==
    LET bh == back_home_time_swiss(entry_data_list)
        ho == home_office_end_time_swiss(entry_data_list)
    IN  [billable_hours |->
             [sum |-> RoundHours(KpiSeconds(
                          SelectSeq(entry_data_list, LAMBDA x : x.entry.billable)))],
         away_from_home_hours |->
             [sum |-> RoundHours(KpiSeconds(
                          SelectSeq(entry_data_list,
                              LAMBDA x : HomeOffice \notin x.entry.tags)))],
         back_home_times |->
             [time |-> IF decimal THEN DecimalTime(bh) ELSE FinalTime(bh)],
         home_office_end_times |->
             [time |-> IF decimal THEN DecimalTime(ho) ELSE FinalTime(ho)],
         late_work_frequency |->
             [count |-> IF \E i \in 1..Len(entry_data_list) :
                               KpiLate(entry_data_list[i])
                        THEN 1 ELSE 0],
         working_day   |-> TRUE,
         total_entries |-> Len(entry_data_list),
         date          |-> date]

\* an entry of the list makes the function raise
KpiRaises(raw_entries) ==
    \E i \in 1..Len(raw_entries) : KpiEntryRaises(raw_entries[i])

DailyKpis(raw_entries, decimal) ==
    LET data == daily_data(raw_entries)
    IN  [d \in DOMAIN data |-> KpiRecord(d, data[d], decimal)]

----------------------------------------------------------------------------
\* Inputs of the model: raw Toggl entries

Entry(start, stop, duration, billable, tags) ==
    [start |-> start, stop |-> stop, duration |-> duration,
     billable |-> billable, tags |-> tags]

\* an instant of 2025: 0-based day of the year and time of day (UTC)
At(day, h, m, s) == Some(day * 24 * 3600 + h * 3600 + m * 60 + s)

Jul17 == 31 + 28 + 31 + 30 + 31 + 30 + 16

Jul18 == Jul17 + 1

Nov20 == 31 + 28 + 31 + 30 + 31 + 30 + 31 + 31 + 30 + 31 + 19

BadString == Some(-1)

\* entries of the per-day specifications
RawEntries ==
    {Entry(At(Jul17, 9, 0, 0), At(Jul17, 12, 0, 0), Some(10800), TRUE, {HomeOffice}),
     Entry(At(Jul17, 13, 0, 0), At(Jul17, 14, 0, 0), Some(3600), TRUE, {HomeOffice}),
     Entry(At(Jul17, 13, 0, 0), At(Jul17, 14, 0, 0), Some(3600), FALSE, {Commuting}),
     Entry(At(Jul17, 13, 0, 0), At(Jul17, 14, 0, 0), Some(3600), FALSE, {}),
     Entry(At(Jul17, 14, 30, 0), At(Jul17, 18, 0, 45), Some(12644), TRUE, {HomeOffice}),
     Entry(At(Jul17, 14, 30, 0), At(Jul17, 18, 0, 45), Some(12644), TRUE, {}),
     Entry(At(Jul17, 13, 0, 0), At(Jul17, 17, 30, 0), Some(16200), TRUE, {HomeOffice}),
     Entry(At(Jul17, 15, 0, 0), At(Jul17, 16, 0, 0), Some(3600), TRUE, {HomeOffice}),
     Entry(At(Jul17, 13, 0, 0), At(Jul17, 17, 30, 40), Some(16240), FALSE, {Commuting}),
     Entry(At(Jul17, 18, 10, 0), At(Jul17, 18, 38, 0), Some(1680), FALSE, {Commuting}),
     Entry(At(Jul17, 22, 30, 0), At(Jul17, 23, 10, 0), Some(2400), FALSE, {}),
     Entry(At(Jul17, 14, 30, 0), None, Some(1800), TRUE, {HomeOffice}),
     Entry(At(Jul17, 14, 30, 0), None, Some(1800), FALSE, {Commuting}),
     Entry(At(Jul17, 19, 30, 0), At(Jul17, 20, 10, 30), Some(2432), FALSE, {}),
     Entry(At(Jul17, 2, 37, 0), At(Jul17, 6, 0, 0), Some(12180), FALSE, {Commuting}),
     Entry(At(Nov20, 18, 10, 0), At(Nov20, 18, 38, 0), Some(1680), FALSE, {Commuting}),
     \* entries the grouping loop skips
     Entry(At(Jul17, 20, 10, 0), At(Jul17, 20, 38, 0), Some(0), TRUE, {Commuting}),
     Entry(At(Jul18, 22, 30, 0), None, Some(-1800), FALSE, {HomeOffice}),
     Entry(At(Jul17, 15, 0, 0), At(Jul17, 21, 0, 0), None, TRUE, {}),
     Entry(None, At(Jul17, 20, 38, 0), Some(3600), TRUE, {Commuting}),
     Entry(BadString, At(Jul17, 21, 0, 0), Some(3600), FALSE, {HomeOffice})}

\* entries of the history specification: three dates, two records for Jul 18,
\* and a running entry (duration 0) the grouping loop skips
HistoryEntries ==
    {Entry(At(Jul17, 9, 0, 0), At(Jul17, 12, 0, 0), Some(10800), TRUE, {HomeOffice}),
     Entry(At(Jul18, 9, 0, 0), At(Jul18, 12, 0, 0), Some(10800), TRUE, {HomeOffice}),
     Entry(At(Jul18, 13, 0, 0), At(Jul18, 20, 0, 0), Some(25200), FALSE, {Commuting}),
     Entry(At(Nov20, 18, 10, 0), At(Nov20, 18, 38, 0), Some(1680), FALSE, {Commuting}),
     Entry(At(Jul18, 20, 10, 0), None, Some(0), TRUE, {HomeOffice})}

\* all lists of at most n elements of S
SeqsUpTo(S, n) == UNION {[1..k -> S] : k \in 0..n}

----------------------------------------------------------------------------
\* State

VARIABLES
    history,        \* data/history_daily.json
    called,         \* function of the last call
    time_entries,   \* argument of the last call
    outcome,        \* "init", "ok" (returned) or "raised" (exception left the call)
    computed,       \* date -> day_record computed by the last call
    daily_kpis,     \* date -> KPI record: result of the last daily KPI call,
                    \* argument of the last period aggregator call
    previous,       \* history before the last call
    runs,           \* number of calls made
    periods,        \* bucket key -> period record returned by the last aggregator
    files,          \* data/*.json written by fetch_and_process_data
    values,         \* argument of the last statistics reducer call
    stats,          \* block returned by the last statistics reducer call
    window,         \* first and last day of the last fetch window
    daily_stats,    \* date -> per-day stats: argument of the last chart build
    charts,         \* data/history_charts.json
    backfill        \* main of backfill_history_daily.py: position, dates, windows

\* the variables of the period aggregation and of the statistics reducers
pvars == <<periods, files, values, stats, window>>

\* the variables of the chart history
cvars == <<daily_stats, charts>>

vars == <<history, called, time_entries, outcome, computed, daily_kpis, previous, runs,
          periods, files, values, stats, window, daily_stats, charts, backfill>>

\* no data/history_daily.json; parses tells whether json.load accepts the file
NoFile ==
    [exists |-> FALSE, parses |-> FALSE, date_range |-> None, daily_metrics |-> <<>>]

EmptyMap == [d \in {} |-> None]

\* main of backfill_history_daily.py has not been started
NotStarted == [pc |-> "idle", yesterday |-> 0, current_start |-> 0, requested |-> <<>>,
               all_entries |-> <<>>]

\* no data/history_charts.json
NoCharts == [exists |-> FALSE, date_range |-> None, metrics |-> EmptyMap]

\* load_existing_aggregated_data with no file in data/
NoFiles ==
    [daily_kpis |-> EmptyMap, weekly_aggregations |-> EmptyMap,
     monthly_aggregations |-> EmptyMap, working_days_aggregations |-> EmptyMap]

\* mutant: the first record of the file is not loaded
existing_days_without_first(h) ==
    LET dm == Tail(h.daily_metrics)
    IN  [d \in {dm[i].date : i \in 1..Len(dm)} |->
            dm[CHOOSE i \in 1..Len(dm) : dm[i].date = d]]

\* {d["date"]: d for d in history.get("daily_metrics", [])}
existing_days(h) ==
    LET dm == h.daily_metrics
    IN  [d \in {dm[i].date : i \in 1..Len(dm)} |->
            dm[CHOOSE i \in 1..Len(dm) :
                   /\ dm[i].date = d
                   /\ \A j \in 1..Len(dm) : dm[j].date = d => j <= i]]

\* an exception leaves the try block: json.load rejects the file, or a
\* record has no "date" key
LoadFails(h) ==
    \/ ~h.parses
    \/ \E i \in 1..Len(h.daily_metrics) : "date" \notin DOMAIN h.daily_metrics[i]

\* mutant: of a document with a record without "date" the dated records
\* are loaded
load_existing_days_dated(h) ==
    IF ~h.exists \/ ~h.parses THEN EmptyMap
    ELSE existing_days([h EXCEPT !.daily_metrics =
             SelectSeq(h.daily_metrics, LAMBDA d : "date" \in DOMAIN d)])

\* existing_days after the load: {} without a file and after an exception
load_existing_days(h) ==
    IF ~h.exists \/ LoadFails(h) THEN EmptyMap ELSE existing_days(h)

\* sorted(existing_days.keys())
RECURSIVE SortedDates(_)
SortedDates(S) ==
    IF S = {} THEN <<>>
    ELSE LET first == CHOOSE a \in S : \A b \in S : a = b \/ DateLess(a, b)
         IN  <<first>> \o SortedDates(S \ {first})

\* mutant: the records are written newest first
HistoryDocumentNewestFirst(days) ==
    LET all_dates == SortedDates(DOMAIN days)
        n         == Len(all_dates)
    IN  [exists        |-> TRUE,
         parses        |-> TRUE,
         date_range    |-> [start |-> all_dates[1], end |-> all_dates[n]],
         daily_metrics |-> [i \in 1..n |-> days[all_dates[n + 1 - i]]]]

\* the document rebuilt from the merged days
HistoryDocument(days) ==
    LET all_dates == SortedDates(DOMAIN days)
    IN  [exists        |-> TRUE,
         parses        |-> TRUE,
         date_range    |-> [start |-> all_dates[1], end |-> all_dates[Len(all_dates)]],
         daily_metrics |-> [i \in 1..Len(all_dates) |-> days[all_dates[i]]]]

\* mutant: the days loaded from the history are dropped
MergedBatchOnly(existing, new) == new

\* mutant: a date already in the history keeps its old record
MergedKeepExisting(existing, new) ==
    [d \in DOMAIN existing \cup DOMAIN new |->
        IF d \in DOMAIN existing THEN existing[d] ELSE new[d]]

\* existing_days[date_str] = day_record, for every day of the batch
Merged(existing, new) ==
    [d \in DOMAIN existing \cup DOMAIN new |->
        IF d \in DOMAIN new THEN new[d] ELSE existing[d]]

\* an exception leaves the loop over per_day.items()
Raises(entries) ==
    LET days == per_day(entries)
    IN  \E d \in DOMAIN days : home_office_end_time(days[d]).raised

\* the day records the loop over per_day.items() computes
DayRecords(entries) ==
    LET days == per_day(entries)
    IN  [d \in DOMAIN days |-> day_record(d, days[d])]

\* one call of _update_history_daily(entries, workspace_name, data_dir)
_update_history_daily(entries) ==
    LET existing == load_existing_days(history)
        raised   == Raises(entries)
        new      == DayRecords(entries)
        merged   == Merged(existing, new)
    IN  /\ called' = "_update_history_daily"
        /\ time_entries' = entries
        /\ previous' = history
        /\ runs' = runs + 1
        /\ UNCHANGED <<daily_kpis, pvars, cvars>>
        /\ IF raised
           THEN /\ outcome' = "raised"
                /\ computed' = EmptyMap
                /\ history' = history
           ELSE /\ outcome' = "ok"
                /\ computed' = new
                /\ history' = IF DOMAIN merged = {} THEN history
                              ELSE HistoryDocument(merged)

\* one call of the daily KPI function of final-production-data.py
\* (decimal = FALSE) or of test-timezone-fix.py (decimal = TRUE)
CalculateDailyKpis(raw_entries, decimal) ==
    /\ called' = IF decimal THEN "calculate_daily_kpis_with_timezone_fix"
                 ELSE "calculate_final_daily_kpis"
    /\ time_entries' = raw_entries
    /\ runs' = runs + 1
    /\ UNCHANGED <<history, computed, previous, pvars, cvars, backfill>>
    /\ IF KpiRaises(raw_entries)
       THEN /\ outcome' = "raised"
            /\ daily_kpis' = EmptyMap
       ELSE /\ outcome' = "ok"
            /\ daily_kpis' = DailyKpis(raw_entries, decimal)

calculate_final_daily_kpis(raw_entries) == CalculateDailyKpis(raw_entries, FALSE)

calculate_daily_kpis_with_timezone_fix(raw_entries) ==
    CalculateDailyKpis(raw_entries, TRUE)

Init ==
    /\ history = NoFile
    /\ called = "none"
    /\ time_entries = <<>>
    /\ outcome = "init"
    /\ computed = EmptyMap
    /\ daily_kpis = EmptyMap
    /\ previous = NoFile
    /\ runs = 0
    /\ periods = EmptyMap
    /\ files = NoFiles
    /\ values = <<>>
    /\ stats = EmptyMap
    /\ window = <<0, 0>>
    /\ daily_stats = EmptyMap
    /\ charts = NoCharts
    /\ backfill = NotStarted

\* serial runs of the daily job over the long-term history
Next ==
    /\ runs < MaxRuns
    /\ \E entries \in SeqsUpTo(HistoryEntries, MaxBatch) :
           _update_history_daily(entries)
    /\ UNCHANGED backfill

Spec == Init /\ [][Next]_vars

\* one call on an arbitrary entry list, no history yet
NextDay ==
    /\ runs < 1
    /\ \E entries \in SeqsUpTo(RawEntries, MaxEntries) :
           _update_history_daily(entries)
    /\ UNCHANGED backfill

SpecDay == Init /\ [][NextDay]_vars

\* one call of a daily KPI function on an arbitrary entry list
FinalKpis ==
    /\ runs < 1
    /\ \E raw_entries \in SeqsUpTo(RawEntries, MaxKpiEntries) :
           calculate_final_daily_kpis(raw_entries)

TimezoneFixKpis ==
    /\ runs < 1
    /\ \E raw_entries \in SeqsUpTo(RawEntries, MaxKpiEntries) :
           calculate_daily_kpis_with_timezone_fix(raw_entries)

NextKpis == FinalKpis \/ TimezoneFixKpis

SpecKpis == Init /\ [][NextKpis]_vars

----------------------------------------------------------------------------
\* Vocabulary of the properties, stated on the raw input and the stored output

\* dates and records of a history document
DatesOf(h) == {h.daily_metrics[i].date : i \in 1..Len(h.daily_metrics)}

RecordsOf(h, d) ==
    {h.daily_metrics[i] : i \in {j \in 1..Len(h.daily_metrics) :
                                    h.daily_metrics[j].date = d}}

\* entries of one date of the last call, in input order
DayEntries(d) == per_day(time_entries)[d]

HomeIdx(es) == {i \in 1..Len(es) : HomeOffice \in es[i].tags}

CommuteIdx(es) == {i \in 1..Len(es) : Commuting \in es[i].tags}

\* the entry of I with the latest start; among equal starts the one the
\* stable sort leaves last, i.e. the latest in input order
LastIdx(es, I) ==
    CHOOSE i \in I : \A j \in I :
        \/ es[j].start[1] < es[i].start[1]
        \/ es[j].start[1] = es[i].start[1] /\ j <= i

HHMM(t) == <<Hour(t), Minute(t)>>

MaxOf(S) == CHOOSE x \in S : \A y \in S : y <= x

\* lastHome.start > lastCommute.stop
Rule1Rejects(es) ==
    /\ HomeIdx(es) # {}
    /\ CommuteIdx(es) # {}
    /\ es[LastIdx(es, CommuteIdx(es))].stop # None
    /\ es[LastIdx(es, HomeIdx(es))].start[1]
           > es[LastIdx(es, CommuteIdx(es))].stop[1]

EntryA_HO == Entry(At(Jul17, 9, 0, 0), At(Jul17, 12, 0, 0), Some(10800), TRUE, {HomeOffice})

EntryB_CO == Entry(At(Jul17, 13, 0, 0), At(Jul17, 14, 0, 0), Some(3600), FALSE, {Commuting})

EntryC_HO == Entry(At(Jul17, 14, 30, 0), At(Jul17, 18, 0, 45), Some(12644), TRUE, {HomeOffice})

EntryD_HO == Entry(At(Jul17, 13, 0, 0), At(Jul17, 17, 30, 0), Some(16200), TRUE, {HomeOffice})

----------------------------------------------------------------------------
\* C1: after a run that returns, on a readable existing history with dates E
\* and a batch with dates B, the history has exactly the dates E \cup B, every
\* date of B carries the newly computed record and every date of E \ B the
\* record it had before.
C1_MergeKeyPreserving ==
    (outcome = "ok" /\ previous.exists) =>
        /\ DatesOf(history) = DatesOf(previous) \cup DOMAIN computed
        /\ \A d \in DOMAIN computed : RecordsOf(history, d) = {computed[d]}
        /\ \A d \in DatesOf(previous) \ DOMAIN computed :
               RecordsOf(history, d) = RecordsOf(previous, d)

\* a merge of {A, B} with {B, C} in which the record of B changes
C1_Witness ==
    /\ outcome = "ok"
    /\ previous.exists
    /\ DatesOf(previous) \ DOMAIN computed # {}
    /\ DOMAIN computed \ DatesOf(previous) # {}
    /\ \E d \in DOMAIN computed \cap DatesOf(previous) :
           RecordsOf(previous, d) # {computed[d]}

\* C2: on every day with a HomeOffice and a Commuting entry, if
\* lastHome.start > lastCommute.stop then home_office_end_time is null,
\* whatever else the day contains.
C2_Rule1Null ==
    outcome = "ok" =>
        \A d \in DOMAIN computed :
            Rule1Rejects(DayEntries(d)) => computed[d].home_office_end_time = None

\* HomeOffice 09:00-12:00, Commuting 13:00-14:00, HomeOffice 14:30-18:00
C2_Witness ==
    /\ time_entries = <<EntryA_HO, EntryB_CO, EntryC_HO>>
    /\ outcome = "ok"
    /\ Rule1Rejects(DayEntries(<<2025, 7, 17>>))
    /\ computed[<<2025, 7, 17>>].home_office_end_time = None

\* C3: home_office_end_time is null without HomeOffice entry; else null when
\* Rule 1 rejects; else null when a non-HomeOffice entry starts after
\* lastHome.stop; else the HH:MM of lastHome.stop exactly when the entry with
\* the latest start of the day is HomeOffice-tagged, null when it is not.
C3_ThreeRules ==
    outcome = "ok" =>
        \A d \in DOMAIN computed :
            LET es       == DayEntries(d)
                lastHome == es[LastIdx(es, HomeIdx(es))]
                lastOfDay == es[LastIdx(es, 1..Len(es))]
            IN  computed[d].home_office_end_time =
                    IF HomeIdx(es) = {} THEN None
                    ELSE IF Rule1Rejects(es) THEN None
                    ELSE IF \E i \in 1..Len(es) :
                                /\ HomeOffice \notin es[i].tags
                                /\ es[i].start[1] > lastHome.stop[1]
                         THEN None
                    ELSE IF HomeOffice \in lastOfDay.tags
                         THEN HHMM(lastHome.stop[1])
                    ELSE None

\* HomeOffice 09:00-12:00 and 13:00-17:30 only: "17:30"
C3_Witness ==
    /\ time_entries = <<EntryA_HO, EntryD_HO>>
    /\ outcome = "ok"
    /\ computed[<<2025, 7, 17>>].home_office_end_time = <<17, 30>>

\* C4: late_work of a day is true iff at least one entry of the day has
\* start hour >= 20 or stop hour >= 20, an absent stop counting as the start.
C4_LateWorkIff ==
    outcome = "ok" =>
        \A d \in DOMAIN computed :
            LET es == DayEntries(d)
            IN  computed[d].late_work <=>
                    \E i \in 1..Len(es) :
                        \/ Hour(es[i].start[1]) >= 20
                        \/ Hour((IF es[i].stop = None THEN es[i].start
                                 ELSE es[i].stop)[1]) >= 20

\* a late day on which no entry starts at or after 20:00: the stop decides
C4_Witness ==
    /\ outcome = "ok"
    /\ \E d \in DOMAIN computed :
           /\ computed[d].late_work
           /\ \A i \in 1..Len(DayEntries(d)) :
                  Hour(DayEntries(d)[i].start[1]) < 20

\* C7: back_home_time is the HH:MM, seconds dropped, of the latest stop among
\* the Commuting entries of the day, and null exactly when no Commuting entry
\* of the day has a stop.
C7_BackHomeLatestStop ==
    outcome = "ok" =>
        \A d \in DOMAIN computed :
            LET es    == DayEntries(d)
                stops == {es[i].stop[1] : i \in {j \in CommuteIdx(es) :
                                                    es[j].stop # None}}
            IN  /\ (computed[d].back_home_time = None) <=> (stops = {})
                /\ stops # {} => computed[d].back_home_time = HHMM(MaxOf(stops))

\* two Commuting entries, the later stop 17:30:40 is reported as "17:30"
C7_Witness ==
    /\ outcome = "ok"
    /\ \E d \in DOMAIN computed :
           LET es == DayEntries(d)
           IN  /\ Cardinality(CommuteIdx(es)) >= 2
               /\ \E i \in CommuteIdx(es) : es[i].stop = At(Jul17, 17, 30, 40)
               /\ \E i \in CommuteIdx(es) : es[i].stop = At(Jul17, 14, 0, 0)
               /\ computed[d].back_home_time = <<17, 30>>

\* Europe/Zurich wall clock of a UTC instant: +2 h in summer, +1 h in winter
Local(t) == t + ZurichOffset(t)

\* an entry that takes part in the aggregation
IsWorkingEntry(entry) ==
    /\ entry.duration # None
    /\ entry.duration[1] > 0
    /\ entry.start # None
    /\ entry.start[1] >= 0

\* C8: entries with duration <= 0 or null, or with a missing or unparsable
\* start, change nothing: the call behaves as on the input without them
\* (same dates, same records, and it raises only if it raises without them).
C8_ExcludedEntriesIgnored ==
    outcome # "init" =>
        LET clean == SelectSeq(time_entries, IsWorkingEntry)
        IN  /\ (outcome = "raised") <=> Raises(clean)
            /\ outcome = "ok" => computed = DayRecords(clean)

\* a returned call whose input mixes working and excluded entries
C8_Witness ==
    /\ outcome = "ok"
    /\ DOMAIN computed # {}
    /\ \E i \in 1..Len(time_entries) : ~IsWorkingEntry(time_entries[i])
    /\ \E i \in 1..Len(time_entries) : time_entries[i].duration = Some(-1800)
    /\ \E i \in 1..Len(time_entries) : time_entries[i].start = BadString

\* C9 (as claimed): a working entry without stop never makes the call raise,
\* and every date with a working entry gets its record.
C9_MissingStopTolerated ==
    outcome # "init" =>
        /\ outcome = "ok"
        /\ \A i \in 1..Len(time_entries) :
               IsWorkingEntry(time_entries[i]) =>
                   DateIso(time_entries[i].start[1]) \in DOMAIN computed

\* all orders of the entries of the last call
Reorderings(es) ==
    {[i \in 1..Len(es) |-> es[f[i]]] :
        f \in {g \in [1..Len(es) -> 1..Len(es)] :
                  \A a, b \in 1..Len(es) : g[a] = g[b] => a = b}}

\* C10 (as claimed): every permutation of the entry list gives the same day
\* records.
C10_OrderIndependent ==
    outcome = "ok" =>
        \A p \in Reorderings(time_entries) :
            ~Raises(p) /\ DayRecords(p) = computed

\* working entries of the last call whose start falls on local date d
LocalDayEntries(d) ==
    SelectSeq(time_entries,
        LAMBDA e : IsWorkingEntry(e) /\ DateIso(Local(e.start[1])) = d)

\* C5 (as claimed): _update_history_daily buckets every working entry by the
\* Europe/Zurich date of its start and takes the late-work hour and the HH:MM
\* values from Europe/Zurich local time.
C5_LocalCivilTime ==
    (called = "_update_history_daily" /\ outcome = "ok") =>
        /\ DOMAIN computed =
               {DateIso(Local(time_entries[i].start[1])) :
                   i \in {j \in 1..Len(time_entries) :
                             IsWorkingEntry(time_entries[j])}}
        /\ \A d \in DOMAIN computed :
               LET es == LocalDayEntries(d)
                   stops == {es[i].stop[1] :
                                i \in {j \in 1..Len(es) :
                                          Commuting \in es[j].tags
                                          /\ es[j].stop # None}}
               IN  /\ computed[d].late_work <=>
                           \E i \in 1..Len(es) :
                               \/ Hour(Local(es[i].start[1])) >= 20
                               \/ es[i].stop # None
                                  /\ Hour(Local(es[i].stop[1])) >= 20
                   /\ stops # {} =>
                          computed[d].back_home_time = HHMM(Local(MaxOf(stops)))

EntryJ_CO == Entry(At(Jul17, 2, 37, 0), At(Jul17, 6, 0, 0), Some(12180), FALSE, {Commuting})

EntryE_CO == Entry(At(Jul17, 18, 10, 0), At(Jul17, 18, 38, 0), Some(1680), FALSE, {Commuting})

\* entries the KPI loop processes: start, stop and a positive duration
IsKpiEntry(entry) == IsWorkingEntry(entry) /\ entry.stop # None

KpiLocalDayEntries(d) ==
    SelectSeq(time_entries,
        LAMBDA e : IsKpiEntry(e) /\ DateIso(Local(e.start[1])) = d)

----------------------------------------------------------------------------
\* Calendar arithmetic of datetime.date for any year
\* (datetime.strptime(date_str, '%Y-%m-%d') and date.isocalendar())

\* longest list of daily records handed to one period aggregator call
MaxDays == 32

IsLeap(y) == y % 4 = 0 /\ (y % 100 # 0 \/ y % 400 = 0)

DaysInMonth(y, m) == IF m = 2 /\ IsLeap(y) THEN 29 ELSE MonthLengths[m]

RECURSIVE DaysBeforeMonth(_, _)
DaysBeforeMonth(y, m) ==
    IF m = 1 THEN 0 ELSE DaysBeforeMonth(y, m - 1) + DaysInMonth(y, m - 1)

DaysBeforeYear(y) ==
    (y - 1) * 365 + (y - 1) \div 4 - (y - 1) \div 100 + (y - 1) \div 400

\* date.toordinal(): 1 is Monday 0001-01-01
toordinal(date) ==
    DaysBeforeYear(date[1]) + DaysBeforeMonth(date[1], date[2]) + date[3]

\* date.fromordinal(n).isoformat(), for the years of the model
fromordinal(n) ==
    LET y == CHOOSE yy \in 2024..2027 :
                 DaysBeforeYear(yy) < n /\ n <= DaysBeforeYear(yy + 1)
        m == CHOOSE mm \in 1..12 :
                 /\ DaysBeforeYear(y) + DaysBeforeMonth(y, mm) < n
                 /\ n <= DaysBeforeYear(y) + DaysBeforeMonth(y, mm) + DaysInMonth(y, mm)
    IN  <<y, m, n - DaysBeforeYear(y) - DaysBeforeMonth(y, m)>>

\* ordinal of the Monday that starts ISO week 1 of a year: the week that
\* holds the year's first Thursday
_isoweek1monday(year) ==
    LET firstday     == toordinal(<<year, 1, 1>>)
        firstweekday == (firstday + 6) % 7
        week1monday  == firstday - firstweekday
    IN  IF firstweekday > 3 THEN week1monday + 7 ELSE week1monday

\* date.isocalendar()[:2] as <<ISO year, ISO week>>
isocalendar(date) ==
    LET today       == toordinal(date)
        week1monday == _isoweek1monday(date[1])
    IN  IF today < week1monday
        THEN <<date[1] - 1, (today - _isoweek1monday(date[1] - 1)) \div 7 + 1>>
        ELSE IF /\ (today - week1monday) \div 7 >= 52
                /\ today >= _isoweek1monday(date[1] + 1)
             THEN <<date[1] + 1, 1>>
             ELSE <<date[1], (today - week1monday) \div 7 + 1>>

\* f"{date_obj.year}-W{date_obj.isocalendar()[1]:02d}" as <<year, week>>
year_week(date) == <<date[1], isocalendar(date)[2]>>

\* f"{date_obj.year}-{date_obj.month:02d}" as <<year, month>>
year_month(date) == <<date[1], date[2]>>

----------------------------------------------------------------------------
\* Arithmetic of the statistics: sum, min, max, statistics.mean,
\* statistics.median and round on lists of numbers

RECURSIVE SumSeq(_)
SumSeq(s) == IF s = <<>> THEN 0 ELSE s[1] + SumSeq(Tail(s))

MinSeq(s) == CHOOSE x \in {s[i] : i \in 1..Len(s)} : \A i \in 1..Len(s) : x <= s[i]

MaxSeq(s) == CHOOSE x \in {s[i] : i \in 1..Len(s)} : \A i \in 1..Len(s) : s[i] <= x

\* sorted(values)
RECURSIVE SortedSeq(_)
SortedSeq(s) ==
    IF s = <<>> THEN <<>>
    ELSE LET i == CHOOSE k \in 1..Len(s) : \A j \in 1..Len(s) : s[k] <= s[j]
         IN  <<s[i]>> \o SortedSeq(SubSeq(s, 1, i - 1) \o SubSeq(s, i + 1, Len(s)))

\* statistics.mean(values) as the fraction <<numerator, denominator>>
Mean(s) == <<SumSeq(s), Len(s)>>

\* statistics.median(values) as a fraction: the middle value, or the mean of
\* the two middle values
Median(s) ==
    LET data == SortedSeq(s)
        n    == Len(s)
    IN  IF n % 2 = 1 THEN <<data[(n + 1) \div 2], 1>>
        ELSE <<data[n \div 2] + data[n \div 2 + 1], 2>>

\* round(x, ndigits) of the fraction x = q[1] / q[2], counted in units of the
\* last kept digit: the nearest unit, a value exactly between two units going
\* to the even one.  The program rounds the binary float, which for a value
\* between two units is not always the even one; the hours of StatValues
\* and DayKinds are such that no mean or median of them lies between two units
\* where the float differs.
Round(q) ==
    LET whole == q[1] \div q[2]
        rest  == q[1] % q[2]
    IN  IF 2 * rest < q[2] THEN whole
        ELSE IF 2 * rest > q[2] THEN whole + 1
        ELSE IF whole % 2 = 0 THEN whole ELSE whole + 1

----------------------------------------------------------------------------
\* final-production-data.py: statistics of "HH:MM" strings

\* hours + minutes / 60.0, counted in minutes (1/60 h)
time_string_to_decimal(time_str) == time_str[1] * 60 + time_str[2]

\* int(decimal_hours) and int((decimal_hours - hours) * 60) of the value
\* q[1] / q[2] minutes: both conversions cut the fraction off.  The program
\* computes this in binary floating point, where a whole number of minutes
\* can come out one minute short (17:05 as "17:04"); the definition is the
\* exact floor, and the times of StatTimes and DayKinds are such that every
\* mean and median of them is converted by the program to the same string.
decimal_hours_to_time(q) ==
    LET hours   == q[1] \div (60 * q[2])
        minutes == (q[1] - 60 * q[2] * hours) \div q[2]
    IN  <<hours, minutes>>

calculate_time_stats_from_strings(time_strings) ==
    LET kept          == SelectSeq(time_strings, LAMBDA t : t # None)
        decimal_times == [i \in 1..Len(kept) |-> time_string_to_decimal(kept[i])]
    IN  IF time_strings = <<>> \/ decimal_times = <<>> THEN EmptyMap
        ELSE [mean     |-> decimal_hours_to_time(Mean(decimal_times)),
              median   |-> decimal_hours_to_time(Median(decimal_times)),
              earliest |-> decimal_hours_to_time(<<MinSeq(decimal_times), 1>>),
              latest   |-> decimal_hours_to_time(<<MaxSeq(decimal_times), 1>>)]

----------------------------------------------------------------------------
\* final-production-data.py: weekly, monthly and rolling aggregation of a
\* daily_kpis dict (date -> record of calculate_final_daily_kpis)

\* the rolling periods, the key f"{period}WD" written as the number
Periods == {5, 10, 30}

\* the values a loop over the days appends to one list of a bucket: the
\* field of the metric of every day of kept, in ascending date order
Appended(daily, kept, metric, field) ==
    LET days == SortedDates(kept)
    IN  [i \in 1..Len(days) |-> daily[days[i]][metric][field]]

\* total_entries += kpis.get('total_entries', 0) over the days of a bucket
total_entries(daily, dates) ==
    LET days == SortedDates(dates)
    IN  SumSeq([i \in 1..Len(days) |-> daily[days[i]].total_entries])

\* mutant: every day of the bucket counts as a late-work day
late_work_days_every_day(daily, dates) == Cardinality(dates)

\* late_work_days += 1 for each day with late_work_frequency.count > 0
late_work_days(daily, dates) ==
    Cardinality({d \in dates : daily[d].late_work_frequency.count > 0})

\* the lists and counters of one bucket after the loop over the days
period_data(daily, dates) ==
    [billable_hours |->
         Appended(daily, {d \in dates : daily[d].billable_hours.sum > 0},
                  "billable_hours", "sum"),
     away_from_home_hours |->
         Appended(daily, {d \in dates : daily[d].away_from_home_hours.sum > 0},
                  "away_from_home_hours", "sum"),
     back_home_times |->
         Appended(daily, {d \in dates : daily[d].back_home_times.time # None},
                  "back_home_times", "time"),
     home_office_end_times |->
         Appended(daily, {d \in dates : daily[d].home_office_end_times.time # None},
                  "home_office_end_times", "time"),
     late_work_days     |-> late_work_days(daily, dates),
     total_working_days |-> Cardinality(dates),
     total_entries      |-> total_entries(daily, dates),
     dates              |-> SortedDates(dates)]

\* the billable block: sum, mean and median in a week, the sum alone in a
\* month or a rolling period, {'sum': 0} when no day has billable hours
billable_block(hours, weekly) ==
    IF hours = <<>> THEN [sum |-> 0]
    ELSE IF weekly
         THEN [sum    |-> SumSeq(hours),
               mean   |-> Round(Mean(hours)),
               median |-> Round(Median(hours))]
         ELSE [sum |-> SumSeq(hours)]

away_block(hours) ==
    [mean |-> Round(Mean(hours)), median |-> Round(Median(hours))]

\* result[key] = block, only under the condition
Optional(condition, key, block) == IF condition THEN key :> block ELSE EmptyMap

\* the fields of the result dict that do not hold times of day
base_result(data, label, key, weekly, start, end) ==
    [working_days   |-> data.total_working_days,
     date_range     |-> [start |-> start, end |-> end],
     billable_hours |-> billable_block(data.billable_hours, weekly),
     late_work_frequency |-> [count |-> data.late_work_days]]
    @@ (label :> key)
    @@ Optional(data.away_from_home_hours # <<>>, "away_from_home_hours",
                away_block(data.away_from_home_hours))

\* final-production-data.py: the time-of-day blocks are "HH:MM" statistics,
\* stored only for a non-empty list
final_result(data, label, key, weekly, start, end) ==
    base_result(data, label, key, weekly, start, end)
    @@ Optional(data.back_home_times # <<>>, "back_home_times",
                calculate_time_stats_from_strings(data.back_home_times))
    @@ Optional(data.home_office_end_times # <<>>, "home_office_end_times",
                calculate_time_stats_from_strings(data.home_office_end_times))

\* min(data['dates']) and max(data['dates'])
MinDate(dates) == dates[1]

MaxDate(dates) == dates[Len(dates)]

\* weekly_data and monthly_data after the loop over the days
weekly_data(daily) ==
    [week \in {year_week(d) : d \in DOMAIN daily} |->
        period_data(daily, {d \in DOMAIN daily : year_week(d) = week})]

monthly_data(daily) ==
    [month \in {year_month(d) : d \in DOMAIN daily} |->
        period_data(daily, {d \in DOMAIN daily : year_month(d) = month})]

aggregate_weekly_data(daily) ==
    LET data == weekly_data(daily)
    IN  [week \in DOMAIN data |->
            final_result(data[week], "week", week, TRUE,
                         MinDate(data[week].dates), MaxDate(data[week].dates))]

aggregate_monthly_data(daily) ==
    LET data == monthly_data(daily)
    IN  [month \in DOMAIN data |->
            final_result(data[month], "month", month, FALSE,
                         MinDate(data[month].dates), MaxDate(data[month].dates))]

\* sorted(daily.keys(), reverse=True)
sorted_dates(daily) ==
    LET ascending == SortedDates(DOMAIN daily)
    IN  [i \in 1..Len(ascending) |-> ascending[Len(ascending) + 1 - i]]

\* mutant: the oldest dates are taken
period_dates_oldest(dates, period) ==
    {dates[i] : i \in (Len(dates) + 1 - period)..Len(dates)}

\* sorted_dates[:period]
period_dates(dates, period) == {dates[i] : i \in 1..period}

\* period_data of every period the dates suffice for
rolling_data(daily) ==
    [period \in {p \in Periods : Len(sorted_dates(daily)) >= p} |->
        period_data(daily, period_dates(sorted_dates(daily), period))]

\* 'date_range': {'start': max(period_dates), 'end': min(period_dates)}
calculate_working_days_aggregations(daily) ==
    LET data == rolling_data(daily)
    IN  [period \in DOMAIN data |->
            final_result(data[period], "period", period, FALSE,
                         MaxDate(data[period].dates), MinDate(data[period].dates))]

----------------------------------------------------------------------------
\* Inputs of the period aggregators: daily records of working days

\* the entry data of an entry worked from h1:m1 to h2:m2, Swiss winter time
Worked(h1, m1, h2, m2, billable, tags) ==
    KpiEntry(Entry(At(0, h1 - 1, m1, 0), At(0, h2 - 1, m2, 0),
                   Some((h2 * 60 + m2 - h1 * 60 - m1) * 60), billable, tags))

\* the entries of seven kinds of working day
DayKinds ==
    << \* home office, all billable
       <<Worked(8, 0, 12, 0, TRUE, {HomeOffice}),
         Worked(13, 0, 17, 30, TRUE, {HomeOffice})>>,
       \* office day with the commute home
       <<Worked(7, 0, 8, 0, FALSE, {Commuting}),
         Worked(8, 0, 17, 0, TRUE, {}),
         Worked(17, 0, 18, 0, FALSE, {Commuting})>>,
       \* home office with two late entries
       <<Worked(9, 0, 12, 0, TRUE, {HomeOffice}),
         Worked(20, 0, 21, 0, TRUE, {HomeOffice}),
         Worked(21, 30, 22, 0, FALSE, {HomeOffice})>>,
       \* a commute and nothing billable
       <<Worked(10, 0, 10, 30, FALSE, {Commuting})>>,
       \* home office, then out
       <<Worked(8, 0, 12, 0, TRUE, {HomeOffice}),
         Worked(12, 30, 13, 0, FALSE, {Commuting}),
         Worked(13, 0, 18, 30, TRUE, {}),
         Worked(18, 37, 19, 37, FALSE, {Commuting})>>,
       \* home office, nothing billable
       <<Worked(9, 0, 9, 41, FALSE, {HomeOffice})>>,
       \* office day ending late
       <<Worked(12, 0, 20, 30, TRUE, {}),
         Worked(20, 30, 21, 0, FALSE, {Commuting})>> >>

\* the i-th working day of the pool: the week of 2025-06-30 (Monday to
\* Friday), then the working days from Monday 2025-12-08 on
PoolDate(i) ==
    IF i <= 5 THEN fromordinal(toordinal(<<2025, 6, 30>>) + i - 1)
    ELSE fromordinal(toordinal(<<2025, 12, 8>>)
                     + 7 * ((i - 6) \div 5) + ((i - 6) % 5))

\* the record calculate_final_daily_kpis stores for the i-th day
PoolRecord(i) == KpiRecord(PoolDate(i), DayKinds[((i - 1) % Len(DayKinds)) + 1], FALSE)

\* the pool: its dates and its records
PoolDates == [i \in 1..MaxDays |-> PoolDate(i)]

PoolRecords == [i \in 1..MaxDays |-> PoolRecord(i)]

\* daily_kpis of the working days lo..hi of the pool
DailyOf(lo, hi, records) ==
    [d \in {PoolDates[i] : i \in lo..hi} |->
        records[CHOOSE i \in lo..hi : PoolDates[i] = d]]

----------------------------------------------------------------------------
\* One call of a period aggregator

PeriodCall(name, daily, result) ==
    /\ called' = name
    /\ daily_kpis' = daily
    /\ periods' = result
    /\ outcome' = "ok"
    /\ runs' = runs + 1
    /\ UNCHANGED <<history, time_entries, computed, previous, files, values, stats,
                   window, cvars, backfill>>

AggregateWeekly ==
    /\ runs < 1
    /\ \E lo \in 1..MaxDays : \E hi \in lo..MaxDays :
           LET daily == DailyOf(lo, hi, PoolRecords)
           IN  PeriodCall("aggregate_weekly_data", daily, aggregate_weekly_data(daily))

AggregateMonthly ==
    /\ runs < 1
    /\ \E lo \in 1..MaxDays : \E hi \in lo..MaxDays :
           LET daily == DailyOf(lo, hi, PoolRecords)
           IN  PeriodCall("aggregate_monthly_data", daily, aggregate_monthly_data(daily))

WorkingDays ==
    /\ runs < 1
    /\ \E lo \in 1..MaxDays : \E hi \in lo..MaxDays :
           LET daily == DailyOf(lo, hi, PoolRecords)
           IN  PeriodCall("calculate_working_days_aggregations", daily,
                          calculate_working_days_aggregations(daily))

----------------------------------------------------------------------------
\* fetch-toggl-data-enhanced-fixed.py: daily KPIs read on the UTC clock,
\* period records with decimal-hour time statistics, merged into data/*.json

\* number of working days Toggl holds entries for
MaxFetchDays == 7

\* number of serial runs of fetch_and_process_data
MaxFetchRuns == 2

\* the dict of one kept entry: this script converts no time zone, the two
\* instants are the parsed UTC timestamps
fixed_entry_data(entry) ==
    [entry       |-> entry,
     start_swiss |-> parse_datetime_utc(entry.start)[1],
     stop_swiss  |-> parse_datetime_utc(entry.stop)[1]]

\* calculate_daily_kpis: entries grouped by start_time.strftime('%Y-%m-%d'),
\* times stored as round(dt.hour + dt.minute / 60.0, 2)
calculate_daily_kpis(raw_entries) ==
    LET kept == SelectSeq(raw_entries, KpiKept)
        data == [i \in 1..Len(kept) |-> fixed_entry_data(kept[i])]
    IN  [d \in {KpiDate(data[i]) : i \in 1..Len(data)} |->
            KpiRecord(d, SelectSeq(data, LAMBDA x : KpiDate(x) = d), TRUE)]

\* mean, median, earliest and latest of decimal hours, each round(..., 2)
decimal_time_stats(times) ==
    LET hours == [i \in 1..Len(times) |-> times[i][1]]
    IN  [mean     |-> Round(Mean(hours)),
         median   |-> Round(Median(hours)),
         earliest |-> MinSeq(hours),
         latest   |-> MaxSeq(hours)]

fixed_result(data, label, key, weekly, start, end) ==
    base_result(data, label, key, weekly, start, end)
    @@ Optional(data.back_home_times # <<>>, "back_home_times",
                decimal_time_stats(data.back_home_times))
    @@ Optional(data.home_office_end_times # <<>>, "home_office_end_times",
                decimal_time_stats(data.home_office_end_times))

fixed_aggregate_weekly_data(daily) ==
    LET data == weekly_data(daily)
    IN  [week \in DOMAIN data |->
            fixed_result(data[week], "week", week, TRUE,
                         MinDate(data[week].dates), MaxDate(data[week].dates))]

fixed_aggregate_monthly_data(daily) ==
    LET data == monthly_data(daily)
    IN  [month \in DOMAIN data |->
            fixed_result(data[month], "month", month, FALSE,
                         MinDate(data[month].dates), MaxDate(data[month].dates))]

fixed_calculate_working_days_aggregations(daily) ==
    LET data == rolling_data(daily)
    IN  [period \in DOMAIN data |->
            fixed_result(data[period], "period", period, FALSE,
                         MaxDate(data[period].dates), MinDate(data[period].dates))]

\* existing[name].update(new)
Updated(existing, new) ==
    [k \in DOMAIN existing \cup DOMAIN new |->
        IF k \in DOMAIN new THEN new[k] ELSE existing[k]]

\* save_aggregated_data: the four documents after the merge
save_aggregated_data(existing, daily, weekly, monthly, working_days) ==
    [daily_kpis                |-> Updated(existing.daily_kpis, daily),
     weekly_aggregations       |-> Updated(existing.weekly_aggregations, weekly),
     monthly_aggregations      |-> Updated(existing.monthly_aggregations, monthly),
     working_days_aggregations |->
         Updated(existing.working_days_aggregations, working_days)]

\* one run of fetch_and_process_data on the entries Toggl returns
fetch_and_process_data(entries) ==
    LET daily == calculate_daily_kpis(entries)
    IN  /\ called' = "fetch_and_process_data"
        /\ time_entries' = entries
        /\ runs' = runs + 1
        /\ UNCHANGED <<history, computed, previous, periods, values, stats, cvars, backfill>>
        /\ IF KpiRaises(entries)
           THEN /\ outcome' = "raised"
                /\ UNCHANGED <<daily_kpis, files>>
           ELSE /\ outcome' = "ok"
                /\ daily_kpis' = daily
                /\ files' = save_aggregated_data(files, daily,
                                fixed_aggregate_weekly_data(daily),
                                fixed_aggregate_monthly_data(daily),
                                fixed_calculate_working_days_aggregations(daily))

\* the raw entries of the i-th working day Toggl holds, counted from Monday
\* 2025-07-28: the entries of a kind of day, worked on that day (UTC)
FetchDay(i) == 31 + 28 + 31 + 30 + 31 + 30 + 27 + 7 * ((i - 1) \div 5) + ((i - 1) % 5)

OnDay(entry, day) ==
    Entry(Some(entry.start[1] + day * 24 * 3600),
          Some(entry.stop[1] + day * 24 * 3600),
          entry.duration, entry.billable, entry.tags)

FetchedDay(i) ==
    LET kind == DayKinds[((i - 1) % Len(DayKinds)) + 1]
    IN  [k \in 1..Len(kind) |-> OnDay(kind[k].entry, FetchDay(i))]

RECURSIVE Fetched(_, _)
Fetched(lo, hi) ==
    IF lo > hi THEN <<>> ELSE FetchedDay(lo) \o Fetched(lo + 1, hi)

\* the fetch window: the days lo..hi, never moving back from run to run
Fetch ==
    /\ runs < MaxFetchRuns
    /\ \E lo \in 1..MaxFetchDays : \E hi \in lo..MaxFetchDays :
           /\ window[1] <= lo
           /\ window[2] <= hi
           /\ window' = <<lo, hi>>
           /\ fetch_and_process_data(Fetched(lo, hi))

SpecStore == Init /\ [][Fetch]_vars

----------------------------------------------------------------------------
\* The statistics reducers of fetch-toggl-data-enhanced.py and of
\* test-all-aggregations.py.  A list element is Some(n) for the number n or
\* None for a value that is no number; numbers of hours are counted in
\* hundredths.  A nullable field of a block is Some(n) or None, count is a
\* plain number.

\* longest list handed to a statistics reducer
MaxValues == 3

\* {"sum": None, "mean": None, "median": None, "earliest": None,
\*  "latest": None, "count": 0}
NullBlock ==
    [sum |-> None, mean |-> None, median |-> None, earliest |-> None,
     latest |-> None, count |-> 0]

\* the block of rounded statistics of a list of numbers
NumberBlock(numbers) ==
    [sum      |-> Some(Round(<<SumSeq(numbers), 1>>)),
     mean     |-> Some(Round(Mean(numbers))),
     median   |-> Some(Round(Median(numbers))),
     earliest |-> Some(Round(<<MinSeq(numbers), 1>>)),
     latest   |-> Some(Round(<<MaxSeq(numbers), 1>>)),
     count    |-> Len(numbers)]

Numbers(list) == [i \in 1..Len(list) |-> list[i][1]]

\* mutant: an empty list gives an empty dict
calculate_stats_empty_dict(list) ==
    IF list = <<>> THEN EmptyMap
    ELSE IF \A i \in 1..Len(list) : list[i] # None THEN NumberBlock(Numbers(list))
    ELSE NullBlock

\* EnhancedTogglDataFetcher.calculate_stats
calculate_stats(list) ==
    IF list = <<>> THEN NullBlock
    ELSE IF \A i \in 1..Len(list) : list[i] # None THEN NumberBlock(Numbers(list))
    ELSE NullBlock

\* round(x / 60, 2) of the fraction x of minutes, in hundredths of an hour
MinutesToHours(q) == Round(<<100 * q[1], 60 * q[2]>>)

\* EnhancedTogglDataFetcher.calculate_time_stats on minutes since midnight
calculate_time_stats(time_values) ==
    IF time_values = <<>> THEN NullBlock
    ELSE [sum      |-> None,
          mean     |-> Some(MinutesToHours(Mean(time_values))),
          median   |-> Some(MinutesToHours(Median(time_values))),
          earliest |-> Some(MinutesToHours(<<MinSeq(time_values), 1>>)),
          latest   |-> Some(MinutesToHours(<<MaxSeq(time_values), 1>>)),
          count    |-> Len(time_values)]

\* sum(values) of test-all-aggregations.py raises TypeError on a value that is
\* no number
test_calculate_stats_raises(list) == \E i \in 1..Len(list) : list[i] = None

\* TestAllAggregations.calculate_stats
test_calculate_stats(list) ==
    IF list = <<>> THEN NullBlock ELSE NumberBlock(Numbers(list))

\* the lists the reducers are called on: hours in hundredths and a value that
\* is no number; minutes since midnight; "HH:MM" strings and a missing time
StatValues == {None, Some(0), Some(400), Some(716), Some(852)}

StatMinutes == {562, 570, 1019, 1020}

StatTimes == {None, <<9, 22>>, <<9, 30>>, <<16, 59>>, <<17, 0>>}

\* one call of a statistics reducer
StatsCall(name, list, raises, result) ==
    /\ called' = name
    /\ values' = list
    /\ runs' = runs + 1
    /\ UNCHANGED <<history, time_entries, computed, daily_kpis, previous, periods,
                   files, window, cvars, backfill>>
    /\ IF raises
       THEN /\ outcome' = "raised"
            /\ stats' = EmptyMap
       ELSE /\ outcome' = "ok"
            /\ stats' = result

CalculateStats ==
    /\ runs < 1
    /\ \E list \in SeqsUpTo(StatValues, MaxValues) :
           StatsCall("calculate_stats", list, FALSE, calculate_stats(list))

CalculateTimeStats ==
    /\ runs < 1
    /\ \E time_values \in SeqsUpTo(StatMinutes, MaxValues) :
           StatsCall("calculate_time_stats", time_values, FALSE,
                     calculate_time_stats(time_values))

TestCalculateStats ==
    /\ runs < 1
    /\ \E list \in SeqsUpTo(StatValues, MaxValues) :
           StatsCall("test_calculate_stats", list, test_calculate_stats_raises(list),
                     test_calculate_stats(list))

TimeStatsFromStrings ==
    /\ runs < 1
    /\ \E time_strings \in SeqsUpTo(StatTimes, MaxValues) :
           StatsCall("calculate_time_stats_from_strings", time_strings, FALSE,
                     calculate_time_stats_from_strings(time_strings))

NextStats ==
    TimeStatsFromStrings \/ CalculateStats \/ CalculateTimeStats \/ TestCalculateStats

SpecStats == Init /\ [][NextStats]_vars

----------------------------------------------------------------------------
\* fetch-toggl-data-enhanced.py: daily KPIs stored as statistics blocks, and
\* the weekly records calculate_stats builds from them

\* dt.hour * 60 + dt.minute of an instant read on the UTC clock
time_to_minutes(dt) == Hour(dt) * 60 + Minute(dt)

RECURSIVE EntrySeconds(_)
EntrySeconds(s) == IF s = <<>> THEN 0 ELSE s[1].duration[1] + EntrySeconds(Tail(s))

\* parse_datetime(max(entries, key=lambda x: parse_datetime(x['stop']))['stop'])
RECURSIVE MaxStop(_)
MaxStop(s) ==
    IF Len(s) = 1 THEN s[1].stop[1]
    ELSE LET m == MaxStop(Tail(s))
         IN  IF s[1].stop[1] >= m THEN s[1].stop[1] ELSE m

\* the six-field block of a counter: every field the counter, count given
counter_block(n, mean, count) ==
    [sum |-> n, mean |-> mean, median |-> n, earliest |-> n, latest |-> n,
     count |-> count]

\* the record of one day.  The hours are one float each, handed to
\* calculate_stats as a list of one value, so every field of the block is
\* that value rounded to hundredths
enhanced_daily_record(date, entries) ==
    LET commute_entries     == SelectSeq(entries, LAMBDA e : Commuting \in e.tags)
        home_office_entries == SelectSeq(entries, LAMBDA e : HomeOffice \in e.tags)
        non_home_entries    == SelectSeq(entries, LAMBDA e : HomeOffice \notin e.tags)
        back_home_times ==
            IF commute_entries # <<>>
            THEN <<time_to_minutes(MaxStop(commute_entries))>> ELSE <<>>
        home_office_end_times ==
            IF home_office_entries # <<>> /\ non_home_entries = <<>>
            THEN <<time_to_minutes(MaxStop(home_office_entries))>> ELSE <<>>
        late_work_entries ==
            Len(SelectSeq(entries,
                LAMBDA e : Hour(e.start[1]) >= 20 \/ Hour(e.stop[1]) >= 20))
    IN  [billable_hours |->
             calculate_stats(<<Some(RoundHours(EntrySeconds(
                 SelectSeq(entries, LAMBDA e : e.billable))))>>),
         away_from_home_hours |->
             calculate_stats(<<Some(RoundHours(EntrySeconds(non_home_entries)))>>),
         back_home_times       |-> calculate_time_stats(back_home_times),
         home_office_end_times |-> calculate_time_stats(home_office_end_times),
         late_work_frequency |->
             counter_block(late_work_entries, late_work_entries,
                           IF late_work_entries > 0 THEN 1 ELSE 0),
         working_day   |-> TRUE,
         total_entries |-> Len(entries),
         date          |-> date]

\* not start_time or not stop_time or entry.get('duration', 0) <= 0: continue
enhanced_kept(entry) ==
    ~(entry.start = None \/ entry.stop = None \/ entry.duration[1] <= 0)

\* calculate_daily_kpis: entries grouped by start_time.strftime('%Y-%m-%d')
enhanced_calculate_daily_kpis(raw_entries) ==
    LET kept == SelectSeq(raw_entries, enhanced_kept)
    IN  [d \in {DateIso(kept[i].start[1]) : i \in 1..Len(kept)} |->
            enhanced_daily_record(d,
                SelectSeq(kept, LAMBDA e : DateIso(e.start[1]) = d))]

\* a value of a daily block is appended when it is truthy: not None, not 0
Truthy(value) == value # None /\ value[1] # 0

\* the lists of one week and the record built from them; the mean of the
\* late-work block is round(late_work_days / total_working_days * 100, 1),
\* counted in tenths of a percent
enhanced_week(daily, week) ==
    LET dates == {d \in DOMAIN daily : year_week(d) = week}
        List(metric, field) ==
            Appended(daily, {d \in dates : Truthy(daily[d][metric][field])},
                     metric, field)
        late  == late_work_days(daily, dates)
        total == Cardinality(dates)
    IN  [billable_hours        |-> calculate_stats(List("billable_hours", "sum")),
         away_from_home_hours  |-> calculate_stats(List("away_from_home_hours", "sum")),
         back_home_times       |-> calculate_stats(List("back_home_times", "mean")),
         home_office_end_times |-> calculate_stats(List("home_office_end_times", "mean")),
         late_work_frequency   |->
             counter_block(late, IF total > 0 THEN Round(<<1000 * late, total>>) ELSE 0,
                           total),
         working_days |-> total,
         date_range   |-> [start |-> MinDate(SortedDates(dates)),
                           end   |-> MaxDate(SortedDates(dates))],
         week         |-> week]

\* EnhancedTogglDataFetcher.aggregate_weekly_data
enhanced_aggregate_weekly_data(daily) ==
    [week \in {year_week(d) : d \in DOMAIN daily} |-> enhanced_week(daily, week)]

\* one call of the enhanced weekly aggregator on the daily KPIs of the
\* entries of a run of working days
EnhancedWeekly ==
    /\ runs < 1
    /\ \E lo \in 1..MaxFetchDays : \E hi \in lo..MaxFetchDays :
           LET daily == enhanced_calculate_daily_kpis(Fetched(lo, hi))
           IN  PeriodCall("enhanced_aggregate_weekly_data", daily,
                          enhanced_aggregate_weekly_data(daily))

\* one call of a period aggregator of final-production-data.py or of
\* fetch-toggl-data-enhanced.py
NextPeriods == AggregateWeekly \/ AggregateMonthly \/ WorkingDays \/ EnhancedWeekly

SpecPeriods == Init /\ [][NextPeriods]_vars

----------------------------------------------------------------------------
\* fix-aggregation-counts.py: the three aggregation files rebuilt from
\* data/daily_kpis.json, the time-of-day blocks with a count

\* calculate_time_stats_with_count: {} for a list without a time, else the
\* "HH:MM" statistics and the number of times
calculate_time_stats_with_count(time_strings) ==
    LET kept == SelectSeq(time_strings, LAMBDA t : t # None)
    IN  IF time_strings = <<>> \/ kept = <<>> THEN EmptyMap
        ELSE calculate_time_stats_from_strings(time_strings)
             @@ [count |-> Len(kept)]

\* the result dict of one bucket: total_entries added, both time-of-day
\* blocks always assigned
counts_result(data, label, key, weekly, start, end) ==
    [working_days   |-> data.total_working_days,
     date_range     |-> [start |-> start, end |-> end],
     total_entries  |-> data.total_entries,
     billable_hours |-> billable_block(data.billable_hours, weekly),
     back_home_times |-> calculate_time_stats_with_count(data.back_home_times),
     home_office_end_times |->
         calculate_time_stats_with_count(data.home_office_end_times),
     late_work_frequency |-> [count |-> data.late_work_days]]
    @@ (label :> key)
    @@ Optional(data.away_from_home_hours # <<>>, "away_from_home_hours",
                away_block(data.away_from_home_hours))

\* weekly_kpis, monthly_kpis and working_days_aggregations of the script
counts_weekly_kpis(daily) ==
    LET data == weekly_data(daily)
    IN  [week \in DOMAIN data |->
            counts_result(data[week], "week", week, TRUE,
                          MinDate(data[week].dates), MaxDate(data[week].dates))]

counts_monthly_kpis(daily) ==
    LET data == monthly_data(daily)
    IN  [month \in DOMAIN data |->
            counts_result(data[month], "month", month, FALSE,
                          MinDate(data[month].dates), MaxDate(data[month].dates))]

counts_working_days_aggregations(daily) ==
    LET data == rolling_data(daily)
    IN  [period \in DOMAIN data |->
            counts_result(data[period], "period", period, FALSE,
                          MaxDate(data[period].dates), MinDate(data[period].dates))]

\* one run of the script on the daily_kpis.json of data/
fix_aggregation_counts(existing) ==
    LET daily == existing.daily_kpis
    IN  /\ called' = "fix_aggregation_counts"
        /\ outcome' = "ok"
        /\ runs' = runs + 1
        /\ files' = [daily_kpis |-> daily,
                     weekly_aggregations       |-> counts_weekly_kpis(daily),
                     monthly_aggregations      |-> counts_monthly_kpis(daily),
                     working_days_aggregations |->
                         counts_working_days_aggregations(daily)]
        /\ UNCHANGED <<history, time_entries, computed, daily_kpis, previous,
                       periods, values, stats, window, cvars, backfill>>

\* data/daily_kpis.json holds the records of a run of pool days
FixAggregationCounts ==
    /\ runs < 1
    /\ \E lo \in 1..MaxDays : \E hi \in lo..MaxDays :
           fix_aggregation_counts(
               [NoFiles EXCEPT !.daily_kpis = DailyOf(lo, hi, PoolRecords)])

SpecCounts == Init /\ [][FixAggregationCounts]_vars

----------------------------------------------------------------------------
\* Vocabulary of the properties of the period aggregators

\* the dates of the aggregated daily records
Days == DOMAIN daily_kpis

\* the n greatest dates of S
Greatest(S, n) == {d \in S : Cardinality({e \in S : DateLess(d, e)}) < n}

\* the dates of the bucket the call filed under key
Placed(key) ==
    IF called = "aggregate_weekly_data"
    THEN {d \in Days : <<d[1], isocalendar(d)[2]>> = key}
    ELSE IF called = "aggregate_monthly_data"
    THEN {d \in Days : <<d[1], d[2]>> = key}
    ELSE Greatest(Days, key)

LateDays(S) == {d \in S : daily_kpis[d].late_work_frequency.count > 0}

RECURSIVE SumOver(_, _)
SumOver(S, f) ==
    IF S = {} THEN 0
    ELSE LET d == CHOOSE x \in S : TRUE IN f[d] + SumOver(S \ {d}, f)

BillableOf == [d \in Days |-> daily_kpis[d].billable_hours.sum]

SingleCall == {"aggregate_weekly_data", "aggregate_monthly_data",
               "calculate_working_days_aggregations"}

----------------------------------------------------------------------------
\* C11: aggregate_weekly_data keys every day by the ISO (year, week) pair of
\* its date: the keys of the result are exactly the ISO year-week pairs of
\* the input dates, and the bucket of a pair holds exactly the dates of that
\* ISO week, so two dates share a bucket iff they lie in the same ISO week of
\* the same ISO year.
C11_WeeklyIsoKey ==
    called = "aggregate_weekly_data" =>
        /\ DOMAIN periods = {isocalendar(d) : d \in Days}
        /\ \A key \in DOMAIN periods :
               periods[key].working_days
                   = Cardinality({d \in Days : isocalendar(d) = key})

\* C12: calculate_working_days_aggregations has the key "{N}WD" iff at least
\* N dates have a daily record, and then the record has working_days = N and
\* aggregates exactly the N greatest dates: its date range, billable sum and
\* late-work count are those of the N greatest dates.
C12_RollingWindow ==
    called = "calculate_working_days_aggregations" =>
        \A N \in Periods :
            /\ N \in DOMAIN periods <=> Cardinality(Days) >= N
            /\ N \in DOMAIN periods =>
                   LET top == Greatest(Days, N)
                   IN  /\ periods[N].working_days = N
                       /\ Cardinality(top) = N
                       /\ \A d \in top : ~DateLess(periods[N].date_range.start, d)
                                         /\ ~DateLess(d, periods[N].date_range.end)
                       /\ periods[N].date_range.start \in top
                       /\ periods[N].date_range.end \in top
                       /\ periods[N].billable_hours.sum = SumOver(top, BillableOf)
                       /\ periods[N].late_work_frequency.count
                              = Cardinality(LateDays(top))

\* more than 30 days with a gap of months between them: the 30-day window
\* is full and leaves the oldest days out, the 5- and 10-day windows too
C12_Witness ==
    /\ called = "calculate_working_days_aggregations"
    /\ Cardinality(Days) > 30
    /\ DOMAIN periods = Periods
    /\ <<2025, 7, 4>> \in Days
    /\ periods[30].working_days = 30

\* C13: after every run of fetch_and_process_data, each persisted weekly,
\* monthly and rolling record is the aggregation of the persisted daily
\* records of its period: the three period documents are the aggregations of
\* the persisted daily_kpis document.
C13_PeriodsDerived ==
    (called = "fetch_and_process_data" /\ outcome = "ok") =>
        /\ files.weekly_aggregations
               = fixed_aggregate_weekly_data(files.daily_kpis)
        /\ files.monthly_aggregations
               = fixed_aggregate_monthly_data(files.daily_kpis)
        /\ files.working_days_aggregations
               = fixed_calculate_working_days_aggregations(files.daily_kpis)

\* the entries of the last call the grouping loop files under date d (the
\* date read from the parsed start, see C5), as indexes of the input
QualifyingIdx(d) ==
    {i \in 1..Len(time_entries) :
        /\ IsWorkingEntry(time_entries[i])
        /\ DateIso(time_entries[i].start[1]) = d}

RECURSIVE SecondsOf(_)
SecondsOf(I) ==
    IF I = {} THEN 0
    ELSE LET i == CHOOSE x \in I : TRUE
         IN  time_entries[i].duration[1] + SecondsOf(I \ {i})

\* hours (in hundredths) is seconds / 3600 rounded to two decimals
IsRounded(hours, seconds) ==
    /\ 3600 * hours - 1800 <= 100 * seconds
    /\ 100 * seconds <= 3600 * hours + 1800

\* C14: billable_hours of a day is the sum of the durations of that day's
\* qualifying entries with billable = true, divided by 3600 and rounded to
\* two decimals; non-billable entries contribute nothing.
C14_BillableHours ==
    (called = "_update_history_daily" /\ outcome = "ok") =>
        \A d \in DOMAIN computed :
            IsRounded(computed[d].billable_hours,
                      SecondsOf({i \in QualifyingIdx(d) : time_entries[i].billable}))

\* a day with billable and non-billable entries
C14_Witness ==
    /\ called = "_update_history_daily"
    /\ outcome = "ok"
    /\ \E d \in DOMAIN computed :
           /\ \E i \in QualifyingIdx(d) : time_entries[i].billable
           /\ \E i \in QualifyingIdx(d) : ~time_entries[i].billable
           /\ computed[d].billable_hours > 0
           /\ computed[d].total_entries = 3

\* C15: away_from_home_hours of a day is the sum of the durations of every
\* qualifying entry without the HomeOffice tag, divided by 3600 and rounded,
\* whatever the billable flag and the other tags; a day whose entries are all
\* HomeOffice-tagged gives 0.
C15_AwayHours ==
    (called = "_update_history_daily" /\ outcome = "ok") =>
        \A d \in DOMAIN computed :
            LET away == {i \in QualifyingIdx(d) : HomeOffice \notin time_entries[i].tags}
            IN  /\ IsRounded(computed[d].away_from_home_hours, SecondsOf(away))
                /\ away = {} => computed[d].away_from_home_hours = 0

\* a day with a HomeOffice entry, a Commuting entry and an untagged billable
\* entry: the last two count
C15_Witness ==
    /\ called = "_update_history_daily"
    /\ outcome = "ok"
    /\ \E d \in DOMAIN computed :
           /\ \E i \in QualifyingIdx(d) : HomeOffice \in time_entries[i].tags
           /\ \E i \in QualifyingIdx(d) : Commuting \in time_entries[i].tags
           /\ \E i \in QualifyingIdx(d) :
                  time_entries[i].tags = {} /\ time_entries[i].billable
           /\ computed[d].away_from_home_hours > 0

\* C16: in every weekly, monthly and rolling bucket working_days is the number
\* of daily records placed in the bucket and the late-work count is the number
\* of those days whose late-work flag is set, a day counting once; so the
\* late-work count is at most working_days.
C16_DayCounts ==
    called \in SingleCall =>
        /\ \A d \in Days : daily_kpis[d].late_work_frequency.count \in {0, 1}
        /\ \A key \in DOMAIN periods :
               /\ periods[key].working_days = Cardinality(Placed(key))
               /\ periods[key].late_work_frequency.count
                      = Cardinality(LateDays(Placed(key)))
               /\ periods[key].late_work_frequency.count
                      <= periods[key].working_days

\* a bucket of several days, some of them late and some not, one of the late
\* days having two late entries
C16_Witness ==
    /\ called \in SingleCall
    /\ \E key \in DOMAIN periods :
           /\ periods[key].working_days >= 5
           /\ periods[key].late_work_frequency.count >= 2
           /\ periods[key].late_work_frequency.count < periods[key].working_days
           /\ \E d \in Placed(key) :
                  /\ daily_kpis[d].late_work_frequency.count = 1
                  /\ daily_kpis[d].total_entries = 3

----------------------------------------------------------------------------
\* Properties of the statistics reducers

\* the reducers that return a block of six fields
BlockReducers == {"calculate_stats", "calculate_time_stats", "test_calculate_stats"}

\* C17: called on an empty list, calculate_stats and calculate_time_stats
\* return without raising, and the block they return has sum, mean, median,
\* earliest and latest all null and count 0.
C17_EmptyStats ==
    (called \in BlockReducers /\ values = <<>>) =>
        /\ outcome = "ok"
        /\ DOMAIN stats = {"sum", "mean", "median", "earliest", "latest", "count"}
        /\ \A field \in {"sum", "mean", "median", "earliest", "latest"} :
               stats[field] = None
        /\ stats.count = 0

\* calculate_stats has been called on the empty list and has returned
C17_Witness ==
    /\ called = "calculate_stats"
    /\ values = <<>>
    /\ outcome = "ok"
    /\ stats.count = 0

\* the times of a list that are not missing, in minutes since midnight
MinutesOf(list) ==
    LET kept == SelectSeq(list, LAMBDA t : t # None)
    IN  [i \in 1..Len(kept) |-> kept[i][1] * 60 + kept[i][2]]

\* "HH:MM" is a whole minute nearest to the fraction q of minutes
IsNearestMinute(hhmm, q) ==
    LET r    == hhmm[1] * 60 + hhmm[2]
        diff == r * q[2] - q[1]
    IN  2 * (IF diff < 0 THEN -diff ELSE diff) <= q[2]

\* C19: the mean and the median calculate_time_stats_from_strings returns are
\* the arithmetic mean and the median of the input times in minutes since
\* midnight, written as the HH:MM of the nearest minute.
C19_NearestMinute ==
    (called = "calculate_time_stats_from_strings" /\ MinutesOf(values) # <<>>) =>
        /\ IsNearestMinute(stats.mean, Mean(MinutesOf(values)))
        /\ IsNearestMinute(stats.median, Median(MinutesOf(values)))

----------------------------------------------------------------------------
\* Properties of fix_aggregation_counts

\* the dates of daily_kpis.json the script files under key in a file
PlacedIn(file, key) ==
    LET dates == DOMAIN files.daily_kpis
    IN  IF file = "weekly_aggregations"
        THEN {d \in dates : <<d[1], isocalendar(d)[2]>> = key}
        ELSE IF file = "monthly_aggregations"
        THEN {d \in dates : <<d[1], d[2]>> = key}
        ELSE Greatest(dates, key)

AggregationFiles ==
    {"weekly_aggregations", "monthly_aggregations", "working_days_aggregations"}

TimeBlocks == {"back_home_times", "home_office_end_times"}

\* C18: in every weekly, monthly and rolling bucket written by
\* fix_aggregation_counts, the back-home block and the home-office-end block
\* have a count, and it is the number of days of the bucket whose time for
\* that metric is not null, 0 when there is none.
C18_TimeCounts ==
    called = "fix_aggregation_counts" =>
        \A file \in AggregationFiles : \A key \in DOMAIN files[file] :
            \A metric \in TimeBlocks :
                LET block == files[file][key][metric]
                    timed == {d \in PlacedIn(file, key) :
                                 files.daily_kpis[d][metric].time # None}
                IN  /\ "count" \in DOMAIN block
                    /\ block.count = Cardinality(timed)

----------------------------------------------------------------------------
\* Properties of the blocks of a period record

PeriodAggregators == SingleCall \cup {"enhanced_aggregate_weekly_data"}

\* the block has a sum; a block of calculate_stats has the field always, and
\* carries a sum when the field is not null
CarriesSum(block) ==
    /\ "sum" \in DOMAIN block
    /\ called = "enhanced_aggregate_weekly_data" => block.sum # None

\* C20: every period record of the period aggregators has a billable-hours
\* block and an away-from-home-hours block with a sum, and its back-home and
\* home-office-end blocks have no sum (the field is absent or null).
C20_SumOnlyForHours ==
    called \in PeriodAggregators =>
        \A key \in DOMAIN periods :
            /\ \A metric \in {"billable_hours", "away_from_home_hours"} :
                   /\ metric \in DOMAIN periods[key]
                   /\ CarriesSum(periods[key][metric])
            /\ \A metric \in TimeBlocks :
                   metric \in DOMAIN periods[key] =>
                       ~CarriesSum(periods[key][metric])

----------------------------------------------------------------------------
\* Properties of the history document over serial runs

\* no entry of the last call passes the two guards of the grouping loop
NoQualifyingEntry == \A i \in 1..Len(time_entries) : ~IsWorkingEntry(time_entries[i])

\* C21: a run of _update_history_daily on an entry list that is empty or has
\* no qualifying entry computes no day record, leaves the set of dates and
\* every record of daily_metrics as they were, and writes no history
\* document when there was none.
C21_EmptyBatchFrame ==
    (called = "_update_history_daily" /\ NoQualifyingEntry) =>
        /\ outcome = "ok"
        /\ computed = EmptyMap
        /\ history.exists = previous.exists
        /\ history.daily_metrics = previous.daily_metrics
        /\ history.date_range = previous.date_range

\* a run on a list holding only the skipped entry, over a history of two dates
C21_Witness ==
    /\ called = "_update_history_daily"
    /\ NoQualifyingEntry
    /\ time_entries # <<>>
    /\ previous.exists
    /\ Len(previous.daily_metrics) >= 2
    /\ history = previous

----------------------------------------------------------------------------
\* Properties of the means and medians of a bucket

\* the per-day sums of a metric over the days of S, in ascending date order
DaySums(S, metric) ==
    LET days == SortedDates(S)
    IN  [i \in 1..Len(days) |-> daily_kpis[days[i]][metric].sum]

\* the block has the mean and the median of the per-day sums of all days of S
OverAllDays(block, S, metric) ==
    /\ block.mean = Round(Mean(DaySums(S, metric)))
    /\ block.median = Round(Median(DaySums(S, metric)))

\* C22: the billable-hours and away-hours mean and median of a weekly,
\* monthly or rolling bucket are taken over the per-day values of all days
\* of the bucket, a day with 0 hours contributing the value 0, so the number
\* of contributing values is working_days.
C22_MeanOverAllDays ==
    called \in SingleCall =>
        \A key \in DOMAIN periods :
            /\ "away_from_home_hours" \in DOMAIN periods[key]
            /\ OverAllDays(periods[key].away_from_home_hours, Placed(key),
                           "away_from_home_hours")
            /\ "mean" \in DOMAIN periods[key].billable_hours =>
                   OverAllDays(periods[key].billable_hours, Placed(key),
                               "billable_hours")

----------------------------------------------------------------------------
\* backfill_reports_history.py: the chart series of data/history_charts.json.
\* Hours are counted in hundredths, times of day in minutes since midnight; a
\* value of a day is Some(number) or None; a rolling mean is the fraction
\* <<sum, count>>, not rounded.  The program
\* keeps the running sum as a float; the values here are such that the
\* running sum is exact.

\* bound: days of per-day stats handed to one chart build
MaxChartDays == 92

\* the three windows of build_daily_block
Windows == {7, 30, 90}

\* res[i] of _compute_rolling_mean: after the i-th pass of the loop
\* window_vals holds the last min(i, window) values, sum_val and count are
\* the sum and the number of its values that are not None
rolling_mean_at(nums, window_size, i) ==
    LET window_vals == SubSeq(nums, IF i > window_size THEN i - window_size + 1 ELSE 1, i)
        counted     == SelectSeq(window_vals, LAMBDA v : v # None)
        sum_val     == SumSeq([j \in 1..Len(counted) |-> counted[j][1]])
        count       == Len(counted)
    IN  IF count > 0 /\ Len(window_vals) >= window_size
        THEN <<sum_val, count>> ELSE None

_compute_rolling_mean(series, window_size) ==
    IF window_size <= 1 THEN [i \in 1..Len(series) |-> None]
    ELSE [i \in 1..Len(series) |-> rolling_mean_at(series, window_size, i)]

\* the daily block of a metric: one point per date that has a value
build_daily_block(date_strs, series) ==
    LET mean7  == _compute_rolling_mean(series, 7)
        mean30 == _compute_rolling_mean(series, 30)
        mean90 == _compute_rolling_mean(series, 90)
        out    == [i \in 1..Len(series) |->
                      [date |-> date_strs[i], value |-> series[i], mean_7 |-> mean7[i],
                       mean_30 |-> mean30[i], mean_90 |-> mean90[i]]]
    IN  SelectSeq(out, LAMBDA point : point.value # None)

\* (iso_year, iso_week) or (d.year, d.month)
series_key(d, freq) == IF freq = "weekly" THEN isocalendar(d) ELSE year_month(d)

\* sorted(buckets.items()): the keys in tuple order
RECURSIVE SortedKeys(_)
SortedKeys(S) ==
    IF S = {} THEN <<>>
    ELSE LET k == CHOOSE a \in S : \A b \in S :
                      a[1] < b[1] \/ (a[1] = b[1] /\ a[2] <= b[2])
         IN  <<k>> \o SortedKeys(S \ {k})

\* the weekly or monthly series of a metric; scale is the number of
\* hundredths in one unit of the values (1 for hours, 100 for minutes)
_build_weekly_monthly_series(dates, series, freq, scale) ==
    LET valued  == {i \in 1..Len(series) : series[i] # None}
        keys    == [i \in 1..Len(series) |-> series_key(dates[i], freq)]
        buckets == SortedKeys({keys[i] : i \in valued})
        bucket(key) ==
            LET members == {i \in valued : keys[i] = key}
                first   == CHOOSE i \in members : \A j \in members : i <= j
                last    == CHOOSE i \in members : \A j \in members : i >= j
                sum_val == SumSeq([n \in 1..(last - first + 1) |->
                               IF first + n - 1 \in members
                               THEN series[first + n - 1][1] ELSE 0])
                count   == Cardinality(members)
            IN  [period           |-> key,
                 start_date       |-> dates[first],
                 end_date         |-> dates[last],
                 sum              |-> sum_val * scale,
                 mean_per_workday |-> Round(<<sum_val * scale, count>>),
                 workdays         |-> count]
    IN  [n \in 1..Len(buckets) |-> bucket(buckets[n])]

\* series_for(field)
series_for(stats_of, date_strs, field) ==
    [i \in 1..Len(date_strs) |-> stats_of[date_strs[i]][field]]

\* the block of one metric in history_charts.json
metric_block(stats_of, date_strs, field, unit) ==
    LET series == series_for(stats_of, date_strs, field)
        scale  == IF unit = "hours" THEN 1 ELSE 100
    IN  [unit    |-> unit,
         daily   |-> build_daily_block(date_strs, series),
         weekly  |-> _build_weekly_monthly_series(date_strs, series, "weekly", scale),
         monthly |-> _build_weekly_monthly_series(date_strs, series, "monthly", scale)]

\* the document _build_history_charts writes for a non-empty daily_stats
_build_history_charts(stats_of) ==
    LET date_strs == SortedDates(DOMAIN stats_of)
    IN  [exists     |-> TRUE,
         date_range |-> [start |-> date_strs[1], end |-> date_strs[Len(date_strs)]],
         metrics    |->
             [billable_hours       |->
                  metric_block(stats_of, date_strs, "billable_hours", "hours"),
              total_hours          |->
                  metric_block(stats_of, date_strs, "total_hours", "hours"),
              away_from_home_hours |->
                  metric_block(stats_of, date_strs, "away_from_home_hours", "hours"),
              back_home_time       |->
                  metric_block(stats_of, date_strs, "back_home_minutes",
                               "minutes_since_midnight"),
              home_office_end_time |->
                  metric_block(stats_of, date_strs, "home_office_minutes",
                               "minutes_since_midnight")]]

\* the field of daily_stats a metric of the charts is read from
FieldOf ==
    [billable_hours |-> "billable_hours", total_hours |-> "total_hours",
     away_from_home_hours |-> "away_from_home_hours",
     back_home_time |-> "back_home_minutes",
     home_office_end_time |-> "home_office_minutes"]

\* per-day stats as _build_daily_stats stores them: an office day, a home
\* office day, a long office day, a day with one untagged entry and no
\* commute, a short home office day
ChartKinds ==
    << [billable_hours |-> Some(850), total_hours |-> Some(1000), away_from_home_hours |-> Some(1000),
        back_home_minutes |-> Some(1080), home_office_minutes |-> None, total_entries |-> 3],
       [billable_hours |-> Some(800), total_hours |-> Some(800), away_from_home_hours |-> Some(0),
        back_home_minutes |-> None, home_office_minutes |-> Some(1020), total_entries |-> 2],
       [billable_hours |-> Some(900), total_hours |-> Some(1100), away_from_home_hours |-> Some(1100),
        back_home_minutes |-> Some(1110), home_office_minutes |-> None, total_entries |-> 4],
       [billable_hours |-> Some(0), total_hours |-> Some(50), away_from_home_hours |-> Some(50),
        back_home_minutes |-> None, home_office_minutes |-> None, total_entries |-> 1],
       [billable_hours |-> Some(750), total_hours |-> Some(750), away_from_home_hours |-> Some(0),
        back_home_minutes |-> None, home_office_minutes |-> Some(990), total_entries |-> 2] >>

\* the days of the chart pool: the calendar days from Monday 2025-06-02 on
ChartDates == [i \in 1..MaxChartDays |-> fromordinal(toordinal(<<2025, 6, 2>>) + i - 1)]

\* daily_stats of the days lo..hi of the chart pool
StatsOf(lo, hi) ==
    [d \in {ChartDates[i] : i \in lo..hi} |->
        ChartKinds[(((CHOOSE i \in lo..hi : ChartDates[i] = d) - 1) % Len(ChartKinds)) + 1]]

\* one run of _build_history_charts
BuildHistoryCharts ==
    /\ runs < 1
    /\ \E lo \in 1..MaxChartDays : \E hi \in (lo - 1)..MaxChartDays :
        /\ called' = "_build_history_charts"
        /\ daily_stats' = StatsOf(lo, hi)
        /\ outcome' = "ok"
        /\ runs' = runs + 1
        /\ charts' = IF DOMAIN daily_stats' = {} THEN charts
                     ELSE _build_history_charts(daily_stats')
        /\ UNCHANGED <<history, time_entries, computed, daily_kpis, previous, pvars,
                       backfill>>

SpecCharts == Init /\ [][BuildHistoryCharts]_vars

----------------------------------------------------------------------------
\* Properties of the chart series

\* the dates that have a value for a field of daily_stats, ascending
ValuedDates(field) ==
    SortedDates({d \in DOMAIN daily_stats : daily_stats[d][field] # None})

\* the values of a field on the given dates
ValuesOn(valued, field) == [k \in 1..Len(valued) |-> daily_stats[valued[k]][field][1]]

\* the mean of the last n of the first k values, as a fraction; None while
\* k is less than n
LastValuesMean(vals, k, n) ==
    IF k < n THEN None ELSE <<SumSeq(SubSeq(vals, k - n + 1, k)), n>>

\* both null, or the same number
SameMean(a, b) ==
    \/ a = None /\ b = None
    \/ a # None /\ b # None /\ a[1] * b[2] = b[1] * a[2]

\* mean_7, mean_30 or mean_90 of a point of a daily block
MeanOfPoint(point, n) ==
    IF n = 7 THEN point.mean_7 ELSE IF n = 30 THEN point.mean_30 ELSE point.mean_90

\* the daily block holds exactly the valued dates of its field, ascending
DailyDatesAreValuedDates(metric) ==
    LET block == charts.metrics[metric].daily
    IN  [k \in 1..Len(block) |-> block[k].date] = ValuedDates(FieldOf[metric])

\* C23: in the chart series of _build_history_charts the daily block of a
\* metric contains exactly the dates with a non-null value of the metric, in
\* ascending order, and mean_N (N = 7, 30, 90) at a date is the mean of the
\* last N values of the metric counting only the days that have a value, null
\* until N such values exist.
C23_RollingMeanOverValues ==
    (called = "_build_history_charts" /\ charts.exists) =>
        \A metric \in DOMAIN FieldOf :
            LET block == charts.metrics[metric].daily
                vals  == ValuesOn(ValuedDates(FieldOf[metric]), FieldOf[metric])
            IN  /\ DailyDatesAreValuedDates(metric)
                /\ \A k \in 1..Len(block) : \A n \in Windows :
                       SameMean(MeanOfPoint(block[k], n), LastValuesMean(vals, k, n))

----------------------------------------------------------------------------
\* src/backend/server.py: the two time-of-day blocks of MetricsCalculator

\* bound: entries handed to one MetricsCalculator
MaxServerEntries == 3

\* entries as the Toggl API returns them: finished entries of three dates
\* and a running entry (negative duration, no stop)
ServerEntries ==
    {Entry(At(Jul17, 7, 0, 0), At(Jul17, 8, 0, 0), Some(3600), FALSE, {Commuting}),
     Entry(At(Jul17, 18, 10, 0), At(Jul17, 18, 38, 0), Some(1680), FALSE, {Commuting}),
     Entry(At(Jul18, 17, 30, 0), At(Jul18, 18, 7, 0), Some(2220), FALSE, {Commuting}),
     Entry(At(Nov20, 18, 10, 0), At(Nov20, 18, 38, 0), Some(1680), FALSE, {Commuting}),
     Entry(At(Jul17, 9, 0, 0), At(Jul17, 12, 0, 0), Some(10800), TRUE, {HomeOffice}),
     Entry(At(Jul18, 9, 0, 0), At(Jul18, 12, 0, 0), Some(10800), TRUE, {HomeOffice}),
     Entry(At(Nov20, 13, 0, 0), At(Nov20, 17, 30, 0), Some(16200), TRUE, {HomeOffice}),
     Entry(At(Jul18, 20, 10, 0), None, Some(-1), FALSE, {Commuting})}

\* daily_last_commute / daily_last_home_office after the loop over the
\* entries: date -> start and end of the entry of the tag that starts latest
RECURSIVE daily_last(_, _)
daily_last(entries, tag) ==
    IF entries = <<>> THEN EmptyMap
    ELSE LET prior      == daily_last(SubSeq(entries, 1, Len(entries) - 1), tag)
             entry      == entries[Len(entries)]
             start_time == entry.start[1]
             date_key   == DateIso(start_time)
         IN  IF /\ entry.duration[1] > 0
                /\ tag \in entry.tags
                /\ \/ date_key \notin DOMAIN prior
                   \/ start_time > prior[date_key].datetime
             THEN [d \in DOMAIN prior \cup {date_key} |->
                      IF d = date_key
                      THEN [datetime |-> start_time, end_time |-> entry.stop]
                      ELSE prior[d]]
             ELSE prior

\* times_in_minutes: t.hour * 60 + t.minute of the end times that are set
times_in_minutes(last_of_day) ==
    LET days == SortedDates({d \in DOMAIN last_of_day : last_of_day[d].end_time # None})
    IN  [i \in 1..Len(days) |-> time_to_minutes(last_of_day[days[i]].end_time[1])]

\* statistics.mean of ints: an int when the quotient is whole, else a float
server_mean(s) == [float |-> SumSeq(s) % Len(s) # 0, q |-> Mean(s)]

\* statistics.median of ints: the middle int of an odd number of values, the
\* float (a + b) / 2 of an even number
server_median(s) == [float |-> Len(s) % 2 = 0, q |-> Median(s)]

\* an int, as min and max return it
server_int(n) == [float |-> FALSE, q |-> <<n, 1>>]

\* minutes_to_time: f"{hours:02d}:{mins:02d}" raises ValueError on a float
minutes_to_time_raises(minutes) == minutes.float

\* minutes_to_time of an int as <<hours, mins>>
minutes_to_time(minutes) ==
    LET n == minutes.q[1] \div minutes.q[2] IN <<n \div 60, n % 60>>

\* [raised |-> a ValueError leaves the method, value |-> the block returned]
server_time_stats(last_of_day) ==
    LET times == times_in_minutes(last_of_day)
    IN  IF times = <<>>
        THEN [raised |-> FALSE,
              value  |-> [mean |-> None, median |-> None, earliest |-> None,
                          latest |-> None, count |-> 0]]
        ELSE IF \/ minutes_to_time_raises(server_mean(times))
                \/ minutes_to_time_raises(server_median(times))
        THEN [raised |-> TRUE, value |-> EmptyMap]
        ELSE [raised |-> FALSE,
              value  |-> [mean     |-> minutes_to_time(server_mean(times)),
                          median   |-> minutes_to_time(server_median(times)),
                          earliest |-> minutes_to_time(server_int(MinSeq(times))),
                          latest   |-> minutes_to_time(server_int(MaxSeq(times))),
                          count    |-> Len(times)]]

get_commute_back_home_times(entries) == server_time_stats(daily_last(entries, Commuting))

get_home_office_end_times(entries) == server_time_stats(daily_last(entries, HomeOffice))

\* one call of a method of MetricsCalculator(entries)
ServerCall(name, entries, result) ==
    /\ called' = name
    /\ time_entries' = entries
    /\ runs' = runs + 1
    /\ outcome' = IF result.raised THEN "raised" ELSE "ok"
    /\ stats' = result.value
    /\ UNCHANGED <<history, computed, daily_kpis, previous, periods, files, values,
                   window, cvars, backfill>>

GetCommuteBackHomeTimes ==
    /\ runs < 1
    /\ \E entries \in SeqsUpTo(ServerEntries, MaxServerEntries) :
           ServerCall("get_commute_back_home_times", entries,
                      get_commute_back_home_times(entries))

GetHomeOfficeEndTimes ==
    /\ runs < 1
    /\ \E entries \in SeqsUpTo(ServerEntries, MaxServerEntries) :
           ServerCall("get_home_office_end_times", entries,
                      get_home_office_end_times(entries))

NextServer == GetCommuteBackHomeTimes \/ GetHomeOfficeEndTimes

SpecServer == Init /\ [][NextServer]_vars

----------------------------------------------------------------------------
\* Properties of the time-of-day blocks of the backend

\* the tag a method of MetricsCalculator looks at
ServerTag ==
    [get_commute_back_home_times |-> Commuting,
     get_home_office_end_times   |-> HomeOffice]

\* the dates on which a finished entry of the tag starts
ContributingDays(tag) ==
    {DateIso(time_entries[i].start[1]) :
        i \in {j \in 1..Len(time_entries) :
                  /\ time_entries[j].duration[1] > 0
                  /\ tag \in time_entries[j].tags
                  /\ time_entries[j].stop # None}}

\* an "HH:MM" string of a time of day
IsHHMM(t) == Len(t) = 2 /\ t[1] \in 0..23 /\ t[2] \in 0..59

\* C24: get_commute_back_home_times and get_home_office_end_times return,
\* for every non-empty set of per-day end times, without raising, a block
\* whose mean, median, earliest and latest are "HH:MM" strings and whose
\* count is the number of contributing days, whatever the number of days
\* (odd or even) and the minute values.
C24_TimeBlockForAnyDays ==
    (called \in DOMAIN ServerTag /\ ContributingDays(ServerTag[called]) # {}) =>
        /\ outcome = "ok"
        /\ IsHHMM(stats.mean) /\ IsHHMM(stats.median)
        /\ IsHHMM(stats.earliest) /\ IsHHMM(stats.latest)
        /\ stats.count = Cardinality(ContributingDays(ServerTag[called]))

----------------------------------------------------------------------------
\* Properties of the history document after any number of runs

\* C25: after any sequence of _update_history_daily runs the daily_metrics
\* of the history are strictly ascending by date, so no date occurs twice,
\* every record has total_entries >= 1, and date_range.start and
\* date_range.end are the dates of the first and of the last record.
C25_HistoryWellFormed ==
    history.exists =>
        LET dm == history.daily_metrics
        IN  /\ dm # <<>>
            /\ \A i \in 1..(Len(dm) - 1) : DateLess(dm[i].date, dm[i + 1].date)
            /\ \A i \in 1..Len(dm) : dm[i].total_entries >= 1
            /\ history.date_range.start = dm[1].date
            /\ history.date_range.end = dm[Len(dm)].date

\* the history of three dates two runs leave, the second run having put a
\* date before the dates of the first
C25_Witness ==
    /\ runs = MaxRuns
    /\ outcome = "ok"
    /\ Len(history.daily_metrics) >= 3
    /\ previous.exists
    /\ \E d \in DOMAIN computed : \A e \in DatesOf(previous) : DateLess(d, e)

\* one run keeps every persisted date, gives the dates of its batch the
\* records it computed and leaves the records of the other dates as they were
LastWriteWins ==
    /\ DatesOf(history) \subseteq DatesOf(history')
    /\ DatesOf(history') = DatesOf(history) \cup DOMAIN computed'
    /\ \A d \in DOMAIN computed' : RecordsOf(history', d) = {computed'[d]}
    /\ \A d \in DatesOf(history) \ DOMAIN computed' :
           RecordsOf(history', d) = RecordsOf(history, d)

\* C26: across serial runs of _update_history_daily on a readable history
\* the persisted set of dates never loses a date, and the record of a date
\* is always the one computed by the latest run whose batch contained the
\* date: every run keeps the dates and the records of the dates outside its
\* batch and writes the records it computed for the dates of its batch.
C26_NoDateLostLastWriteWins == [][LastWriteWins]_vars

\* a second run has replaced the record of a date and kept another date
C26_Witness ==
    /\ runs = MaxRuns
    /\ called = "_update_history_daily"
    /\ \E d \in DOMAIN computed \cap DatesOf(previous) :
           /\ RecordsOf(previous, d) # {computed[d]}
           /\ RecordsOf(history, d) = {computed[d]}
    /\ \E d \in DatesOf(previous) \ DOMAIN computed :
           RecordsOf(history, d) = RecordsOf(previous, d)

----------------------------------------------------------------------------
\* Runs that find a history document the load rejects

\* a record of 2025-07-16 as an earlier run wrote it
OldRecord ==
    [date |-> <<2025, 7, 16>>, billable_hours |-> 300, away_from_home_hours |-> 0,
     back_home_time |-> None, home_office_end_time |-> <<12, 0>>,
     late_work |-> FALSE, total_entries |-> 1]

\* a record that has lost its "date" key
RecordWithoutDate ==
    [billable_hours |-> 800, away_from_home_hours |-> 0, back_home_time |-> None,
     home_office_end_time |-> <<17, 0>>, late_work |-> FALSE, total_entries |-> 2]

\* history documents the load rejects: a file that is not JSON, and a
\* document whose second record has no "date"
BrokenHistories ==
    {[exists |-> TRUE, parses |-> FALSE, date_range |-> None, daily_metrics |-> <<>>],
     [exists |-> TRUE, parses |-> TRUE,
      date_range |-> [start |-> <<2025, 7, 16>>, end |-> <<2025, 7, 16>>],
      daily_metrics |-> <<OldRecord, RecordWithoutDate>>]}

InitBroken ==
    /\ history \in BrokenHistories
    /\ called = "none"
    /\ time_entries = <<>>
    /\ outcome = "init"
    /\ computed = EmptyMap
    /\ daily_kpis = EmptyMap
    /\ previous = NoFile
    /\ runs = 0
    /\ periods = EmptyMap
    /\ files = NoFiles
    /\ values = <<>>
    /\ stats = EmptyMap
    /\ window = <<0, 0>>
    /\ daily_stats = EmptyMap
    /\ charts = NoCharts
    /\ backfill = NotStarted

\* serial runs of the daily job that start on a rejected history document
SpecBroken == InitBroken /\ [][Next]_vars

\* C27: if the existing history document exists but cannot be parsed, or
\* one of its records lacks "date", _update_history_daily does not raise: it
\* treats the history as empty, so the history it writes holds exactly the
\* dates of the current batch, and it writes nothing when the batch yields
\* no day.
C27_RejectedHistoryIsEmpty ==
    (called = "_update_history_daily" /\ previous.exists /\ LoadFails(previous)) =>
        /\ outcome = "ok"
        /\ IF DOMAIN per_day(time_entries) = {}
           THEN history = previous
           ELSE /\ history.exists
                /\ ~LoadFails(history)
                /\ DatesOf(history) = DOMAIN per_day(time_entries)

\* a run over the document with the undated record has written the two
\* dates of its batch, and not the dated record of the old document
C27_Witness ==
    /\ called = "_update_history_daily"
    /\ previous.exists
    /\ previous.parses
    /\ LoadFails(previous)
    /\ Cardinality(DOMAIN per_day(time_entries)) = 2
    /\ DatesOf(history) = DOMAIN per_day(time_entries)

\* a run over a rejected document whose batch yields no day has written
\* nothing
C27_NothingWritten ==
    /\ called = "_update_history_daily"
    /\ LoadFails(previous)
    /\ time_entries # <<>>
    /\ history = previous

----------------------------------------------------------------------------
\* Properties of the home office end time among overlapping entries

\* every entry of the day has a stop, and the stop is on the day
StopsOnDay(d) ==
    \A i \in 1..Len(DayEntries(d)) :
        /\ DayEntries(d)[i].stop # None
        /\ DateIso(DayEntries(d)[i].stop[1]) = d

\* minutes since midnight of an "HH:MM" string
MinutesOfHHMM(t) == t[1] * 60 + t[2]

\* C28: for a day whose entries all have a stop on that same date, a
\* non-null home_office_end_time is the time of day of the latest stop among
\* the HomeOffice entries of the day: no HomeOffice entry of the day stops
\* later than the reported time, also when HomeOffice entries overlap or are
\* nested.
C28_LatestHomeOfficeStop ==
    (called = "_update_history_daily" /\ outcome = "ok") =>
        \A d \in DOMAIN computed :
            (StopsOnDay(d) /\ computed[d].home_office_end_time # None) =>
                LET es == DayEntries(d)
                IN  /\ \A i \in HomeIdx(es) :
                           _minutes_since_midnight(es[i].stop)
                               <= MinutesOfHHMM(computed[d].home_office_end_time)
                    /\ \E i \in HomeIdx(es) :
                           FormatHHMM(_minutes_since_midnight(es[i].stop))
                               = computed[d].home_office_end_time

----------------------------------------------------------------------------
\* Properties of the date range of a period record

\* C29: in every record of aggregate_weekly_data, aggregate_monthly_data and
\* calculate_working_days_aggregations date_range.start is the earliest and
\* date_range.end the latest date aggregated into the record, so
\* date_range.start is not after date_range.end.
C29_DateRangeOrdered ==
    called \in SingleCall =>
        \A key \in DOMAIN periods :
            /\ periods[key].date_range.start = MinDate(SortedDates(Placed(key)))
            /\ periods[key].date_range.end = MaxDate(SortedDates(Placed(key)))
            /\ ~DateLess(periods[key].date_range.end, periods[key].date_range.start)

----------------------------------------------------------------------------
\* backfill_history_daily.py: main fetches the entries since 2025-06-01 in
\* windows and hands them to _update_history_daily.  Dates are ordinals.

\* bound: days from the start date to the latest yesterday
MaxBackfillDays == 180

\* start = date(2025, 6, 1)
backfill_start == toordinal(<<2025, 6, 1>>)

window_days == 60

\* the finished and running entries of the account, oldest first
AccountEntries ==
    <<Entry(At(Jul17, 9, 0, 0), At(Jul17, 12, 0, 0), Some(10800), TRUE, {HomeOffice}),
      Entry(At(Jul18, 9, 0, 0), At(Jul18, 12, 0, 0), Some(10800), TRUE, {HomeOffice}),
      Entry(At(Jul18, 13, 0, 0), At(Jul18, 20, 0, 0), Some(25200), FALSE, {Commuting}),
      Entry(At(Nov20, 18, 10, 0), At(Nov20, 18, 38, 0), Some(1680), FALSE, {Commuting}),
      Entry(At(Nov20, 20, 10, 0), None, Some(-1), TRUE, {HomeOffice})>>

\* mutant: the last window is not cut at yesterday
window_end_uncut(current_start, yesterday) == current_start + (window_days - 1)

\* current_end of the window that starts at current_start
window_end(current_start, yesterday) ==
    IF current_start + (window_days - 1) > yesterday
    THEN yesterday
    ELSE current_start + (window_days - 1)

\* the entries /me/time_entries returns for the days first..last
get_time_entries(first, last) ==
    SelectSeq(AccountEntries,
              LAMBDA e : toordinal(DateIso(e.start[1])) \in first..last)

\* main after line 226: before the first test of the loop
InitBackfill ==
    /\ history = NoFile
    /\ called = "none"
    /\ time_entries = <<>>
    /\ outcome = "init"
    /\ computed = EmptyMap
    /\ daily_kpis = EmptyMap
    /\ previous = NoFile
    /\ runs = 0
    /\ periods = EmptyMap
    /\ files = NoFiles
    /\ values = <<>>
    /\ stats = EmptyMap
    /\ window = <<0, 0>>
    /\ daily_stats = EmptyMap
    /\ charts = NoCharts
    /\ \E yesterday \in (backfill_start - 2)..(backfill_start + MaxBackfillDays) :
           backfill = [pc |-> "loop", yesterday |-> yesterday,
                       current_start |-> backfill_start, requested |-> <<>>,
                       all_entries |-> <<>>]

\* one pass of the loop: the request returns the entries of the window
FetchWindow ==
    /\ backfill.pc = "loop"
    /\ backfill.current_start <= backfill.yesterday
    /\ LET current_end == window_end(backfill.current_start, backfill.yesterday)
       IN  backfill' =
               [backfill EXCEPT
                   !.requested = Append(@, <<backfill.current_start, current_end>>),
                   !.all_entries = @ \o get_time_entries(backfill.current_start,
                                                         current_end),
                   !.current_start = current_end + 1]
    /\ UNCHANGED <<history, called, time_entries, outcome, computed, daily_kpis,
                   previous, runs, pvars, cvars>>

\* one pass of the loop: raise_for_status raises, the exception leaves main
FetchFails ==
    /\ backfill.pc = "loop"
    /\ backfill.current_start <= backfill.yesterday
    /\ LET current_end == window_end(backfill.current_start, backfill.yesterday)
       IN  backfill' =
               [backfill EXCEPT
                   !.requested = Append(@, <<backfill.current_start, current_end>>),
                   !.pc = "failed"]
    /\ UNCHANGED <<history, called, time_entries, outcome, computed, daily_kpis,
                   previous, runs, pvars, cvars>>

\* the test of the loop fails: the loop is left
LeaveLoop ==
    /\ backfill.pc = "loop"
    /\ backfill.current_start > backfill.yesterday
    /\ backfill' = [backfill EXCEPT !.pc = "update"]
    /\ UNCHANGED <<history, called, time_entries, outcome, computed, daily_kpis,
                   previous, runs, pvars, cvars>>

\* _update_history_daily(all_entries, ...) after the loop
UpdateAfterBackfill ==
    /\ backfill.pc = "update"
    /\ _update_history_daily(backfill.all_entries)
    /\ backfill' = [backfill EXCEPT !.pc = "done"]

\* a step of the loop: a pass, or the failing test that leaves it
LoopStep == FetchWindow \/ FetchFails \/ LeaveLoop

NextBackfill == LoopStep \/ UpdateAfterBackfill

\* main runs on: while it is in the loop, it takes the next step of the loop
SpecBackfill == InitBackfill /\ [][NextBackfill]_vars /\ WF_backfill(LoopStep)

----------------------------------------------------------------------------
\* Properties of the backfill loop

\* the requested windows that hold the date d
WindowsWith(d) ==
    {i \in 1..Len(backfill.requested) :
        d \in backfill.requested[i][1]..backfill.requested[i][2]}

\* the windows requested so far are consecutive, do not overlap, have 1 to
\* 60 days each and lie between the start date and yesterday; once the test
\* of the loop has failed they hold every date from the start date through
\* yesterday once
WindowsTile ==
    LET w == backfill.requested
    IN  /\ \A i \in 1..Len(w) :
               /\ w[i][1] <= w[i][2]
               /\ w[i][2] - w[i][1] + 1 <= window_days
               /\ backfill_start <= w[i][1]
               /\ w[i][2] <= backfill.yesterday
        /\ \A i \in 1..(Len(w) - 1) : w[i + 1][1] = w[i][2] + 1
        /\ \A d \in backfill_start..backfill.yesterday :
               Cardinality(WindowsWith(d)) <= 1
        /\ backfill.pc \in {"update", "done"} =>
               /\ \A d \in backfill_start..backfill.yesterday :
                      Cardinality(WindowsWith(d)) = 1
               /\ backfill.yesterday < backfill_start => w = <<>>

\* C30: the backfill loop of main terminates, and the fetch windows it
\* requests for the days from 2025-06-01 to yesterday are consecutive and
\* non-overlapping, at most 60 days long each, and together hold every date
\* from the start date through yesterday exactly once; no window is
\* requested when yesterday is before the start date.
C30_BackfillTerminatesAndTiles ==
    /\ <>(backfill.pc # "loop")
    /\ [](backfill.pc # "idle" => WindowsTile)

\* main has finished after four windows, the last one shorter than 60 days
C30_Witness ==
    /\ backfill.pc = "done"
    /\ Len(backfill.requested) = 4
    /\ backfill.requested[4][2] - backfill.requested[4][1] + 1 < window_days
    /\ DatesOf(history) # {}

====
